---- MODULE Spec2Model ----
(***************************************************************************)
(* consult-human: the Telegram request/reply coordination subsystem.       *)
(*                                                                         *)
(*   - the sentinel-file locks of the pending store, the inbox store and   *)
(*     the poller (withLock, TryWithLock, isStaleLock), step by step;      *)
(*   - the inbox store (NextOffset, AppendUpdates, ClaimForRequest);       *)
(*   - the TelegramProvider (Send, Receive) and the upstream Bot API.      *)
(***************************************************************************)
EXTENDS Integers, Sequences, FiniteSets, TLC

VARIABLES
    alive,      \* alive[p]: the OS process p exists (processExists(p))
    windows,    \* runtime.GOOS == "windows"
    lockFile,   \* lockFile[L]: the sentinel file at the lock's path
    lkpc,       \* lkpc[p][L]: where p is inside withLock / TryWithLock on L
    now,        \* time.Now(), in units of five minutes
    inbox,      \* the inbox file: telegramInboxState
    lastOp,     \* the last inbox-store call: its arguments and what it returned
    local,      \* local[p]: the store call or poll cycle p is in the middle of
    admitted,   \* admitted[u]: how often update u was added to the inbox
    upstream,   \* the Bot API side: updates not yet confirmed, id counters
    pc,         \* pc[p]: where p's ask is inside Send / Receive
    prov,       \* prov[p]: p's TelegramProvider and what its Receive returned
    pending,    \* the pending store file: request (process) -> record
    hist,       \* what the human sent, and the reminders sent so far
    env,        \* the machine and the bot: os.Hostname(), the bot's webhook url
    out         \* out[p]: what the ask command of p wrote to stdout, and its exit

lockVars == <<alive, windows, lockFile, lkpc>>
inboxVars == <<now, inbox, lastOp>>
concVars == <<local, admitted, upstream>>
coordVars == <<pc, prov, pending, hist, env, out>>

\* Everything the lock steps leave alone.
nonLockVars == <<inboxVars, concVars, coordVars>>

vars == <<lockVars, inboxVars, concVars, coordVars>>

-----------------------------------------------------------------------------
(* Bounds *)

NumProcs == 3
MaxCrashes == 1
MaxUpd == 2
MaxPending == 2
MaxNow == 3
MaxCalls == 1
NumAskers == 2
MaxReplies == 1

Procs == 1..NumProcs

-----------------------------------------------------------------------------
(* The three sentinel-file locks of one state directory *)

StoreLocks == {"pending", "inbox"}
Locks == StoreLocks \cup {"poller"}

\* No file at the lock path.
NoFile == [exists |-> FALSE, owner |-> 0, written |-> FALSE, old |-> FALSE]

\* The file OpenFile(O_CREATE|O_EXCL) has just created: empty, fresh mtime.
NewFile(p) == [exists |-> TRUE, owner |-> p, written |-> FALSE, old |-> FALSE]

LockFiles ==
    {NoFile} \cup
    [exists : {TRUE}, owner : Procs, written : BOOLEAN, old : BOOLEAN]

LockPcs == {"idle", "open", "write", "held", "stat", "unlink", "busy", "release"}

Dead == {p \in Procs : ~alive[p]}

\* processExists(pid): signal 0 reaches the process.
processExists(pid) == pid \in Procs /\ alive[pid]

\* isStaleLock / isStale: no file is not stale; a parsable PID on a
\* non-Windows host decides by liveness alone; otherwise the file's age
\* against the lock's MaxAge decides.
isStaleLockDeadOrOld(L) ==
    LET f == lockFile[L] IN
    f.exists /\ ((f.written /\ ~windows /\ ~processExists(f.owner)) \/ f.old)
isStaleLock(L) ==
    LET f == lockFile[L] IN
    IF ~f.exists THEN FALSE
    ELSE IF f.written /\ ~windows THEN ~processExists(f.owner)
    ELSE f.old

SetPc(p, L, v) == lkpc' = [lkpc EXCEPT ![p][L] = v]

\* p is running fn inside withLock / TryWithLock on L.
InFn(p, L) == alive[p] /\ lkpc[p][L] = "held"

\* The call enters withLock / TryWithLock (MkdirAll done, loop head next).
LockBegin(p, L) ==
    /\ alive[p]
    /\ \A M \in Locks : lkpc[p][M] = "idle"
    /\ SetPc(p, L, "open")
    /\ UNCHANGED <<alive, windows, lockFile>>
    /\ UNCHANGED nonLockVars

\* os.OpenFile(lock, O_CREATE|O_EXCL|O_WRONLY): creates the file, or fails
\* with "exists".
LockOpen(p, L) ==
    /\ alive[p]
    /\ lkpc[p][L] = "open"
    /\ IF lockFile[L].exists
          THEN /\ SetPc(p, L, "stat")
               /\ UNCHANGED lockFile
          ELSE /\ lockFile' = [lockFile EXCEPT ![L] = NewFile(p)]
               /\ SetPc(p, L, "write")
    /\ UNCHANGED <<alive, windows>>
    /\ UNCHANGED nonLockVars

\* lockFile.WriteString(pid); Close; defer os.Remove.  The write goes to the
\* file p created, which may no longer be the file at the path.
LockWritePid(p, L) ==
    /\ alive[p]
    /\ lkpc[p][L] = "write"
    /\ lockFile' =
          IF lockFile[L].exists /\ lockFile[L].owner = p
             THEN [lockFile EXCEPT ![L] = [@ EXCEPT !.written = TRUE, !.old = FALSE]]
             ELSE lockFile
    /\ SetPc(p, L, "held")
    /\ UNCHANGED <<alive, windows>>
    /\ UNCHANGED nonLockVars

\* stale, staleErr := isStaleLock()
LockStat(p, L) ==
    /\ alive[p]
    /\ lkpc[p][L] = "stat"
    /\ SetPc(p, L, IF isStaleLock(L) THEN "unlink" ELSE "busy")
    /\ UNCHANGED <<alive, windows, lockFile>>
    /\ UNCHANGED nonLockVars

\* _ = os.Remove(lock); continue.  Removes whatever file is at the path now.
LockUnlink(p, L) ==
    /\ alive[p]
    /\ lkpc[p][L] = "unlink"
    /\ lockFile' = [lockFile EXCEPT ![L] = NoFile]
    /\ SetPc(p, L, "open")
    /\ UNCHANGED <<alive, windows>>
    /\ UNCHANGED nonLockVars

\* The lock is held and not stale.  TryWithLock returns (false, nil) at
\* once; withLock sleeps 20 ms and tries again.
LockRetry(p, L) ==
    /\ alive[p]
    /\ lkpc[p][L] = "busy"
    /\ SetPc(p, L, IF L = "poller" THEN "idle" ELSE "open")
    /\ UNCHANGED <<alive, windows, lockFile>>
    /\ UNCHANGED nonLockVars

\* withLock only: time.Now().After(deadline), the 3 s wait is over.
LockTimeout(p, L) ==
    /\ alive[p]
    /\ L \in StoreLocks
    /\ lkpc[p][L] = "busy"
    /\ SetPc(p, L, "idle")
    /\ UNCHANGED <<alive, windows, lockFile>>
    /\ UNCHANGED nonLockVars

\* A return from fn that leaves the lock file where it is.
LockReleaseKeeps(p, L) ==
    /\ alive[p]
    /\ lkpc[p][L] = "release"
    /\ SetPc(p, L, "idle")
    /\ UNCHANGED <<alive, windows, lockFile>>
    /\ UNCHANGED nonLockVars

\* The deferred os.Remove(lock) on return from fn.
LockRelease(p, L) ==
    /\ alive[p]
    /\ lkpc[p][L] = "release"
    /\ lockFile' = [lockFile EXCEPT ![L] = NoFile]
    /\ SetPc(p, L, "idle")
    /\ UNCHANGED <<alive, windows>>
    /\ UNCHANGED nonLockVars

\* More than the lock's MaxAge passes since the file's mtime.
LockAges(L) ==
    /\ lockFile[L].exists
    /\ ~lockFile[L].old
    /\ lockFile' = [lockFile EXCEPT ![L] = [@ EXCEPT !.old = TRUE]]
    /\ UNCHANGED <<alive, windows, lkpc>>
    /\ UNCHANGED nonLockVars

\* The process dies where it stands; its lock files stay behind.
Crash(p) ==
    /\ alive[p]
    /\ Cardinality(Dead) < MaxCrashes
    /\ alive' = [alive EXCEPT ![p] = FALSE]
    /\ UNCHANGED <<windows, lockFile, lkpc>>
    /\ UNCHANGED nonLockVars

-----------------------------------------------------------------------------
(* The inbox store: data *)

\* Time is counted in units of five minutes; 0 is the zero time.Time.
ZeroTime == 0
telegramInboxLooseTTL == 1
telegramInboxReplyTTL == 4
telegramInboxMaxEntries == 4096

\* Message texts are sequences of characters; " " is white space.
RECURSIVE TrimLeft(_)
TrimLeft(s) ==
    IF s = <<>> THEN s
    ELSE IF Head(s) = " " THEN TrimLeft(Tail(s)) ELSE s

RECURSIVE TrimRight(_)
TrimRight(s) ==
    IF s = <<>> THEN s
    ELSE IF s[Len(s)] = " " THEN TrimRight(SubSeq(s, 1, Len(s) - 1)) ELSE s

\* strings.TrimSpace
TrimSpace(s) == TrimRight(TrimLeft(s))

\* telegramUpdate with Message == nil
NoMessage ==
    [present |-> FALSE, message_id |-> 0, chat_id |-> 0, reply_to |-> 0, text |-> <<>>]

\* telegramMessage; reply_to is ReplyToMessage.MessageID, 0 when there is none.
Message(mid, chat, reply, text) ==
    [present |-> TRUE, message_id |-> mid, chat_id |-> chat, reply_to |-> reply,
     text |-> text]

\* telegramUpdate
Update(uid, msg) == [update_id |-> uid, message |-> msg]

\* telegramInboxState of a missing or empty file.
EmptyInbox == [next |-> 0, entries |-> <<>>]

\* The telegramInboxEntry AppendUpdates builds from an update.
NewEntry(up, nowT) ==
    [update_id   |-> up.update_id,
     chat_id     |-> up.message.chat_id,
     message_id  |-> up.message.message_id,
     reply_to    |-> up.message.reply_to,
     text        |-> TrimSpace(up.message.text),
     ingested_at |-> nowT,
     expires_at  |-> IF up.message.reply_to > 0
                        THEN nowT + telegramInboxReplyTTL
                        ELSE nowT + telegramInboxLooseTTL]

\* pruneExpiredInboxEntries keeps an entry whose ExpiresAt is zero or after now.
EntryExpiredNever(e, nowT) == FALSE
EntryExpired(e, nowT) == e.expires_at # ZeroTime /\ ~(e.expires_at > nowT)

RECURSIVE FilterLive(_, _)
FilterLive(es, nowT) ==
    IF es = <<>> THEN <<>>
    ELSE IF EntryExpired(Head(es), nowT)
            THEN FilterLive(Tail(es), nowT)
            ELSE <<Head(es)>> \o FilterLive(Tail(es), nowT)

\* loadPrunedLocked: the loaded state without its expired entries, and
\* whether pruning changed it.
loadPrunedAlwaysChanged(file, nowT) ==
    [state   |-> [file EXCEPT !.entries = FilterLive(file.entries, nowT)],
     changed |-> TRUE]
loadPruned(file, nowT) ==
    LET live == FilterLive(file.entries, nowT) IN
    [state   |-> [file EXCEPT !.entries = live],
     changed |-> Len(live) # Len(file.entries)]

-----------------------------------------------------------------------------
(* The inbox store: AppendUpdates *)

\* The loop over the batch: existing ids are skipped, as are updates without
\* a message or with blank text; maxUpdate ranges over the whole batch.
RECURSIVE AppendLoop(_, _, _)
AppendLoop(ups, acc, nowT) ==
    IF ups = <<>> THEN acc
    ELSE
      LET up   == Head(ups)
          acc1 == [acc EXCEPT !.maxUpdate =
                      IF up.update_id > @ THEN up.update_id ELSE @]
      IN
      IF up.update_id \in acc.existing
         THEN AppendLoop(Tail(ups), acc1, nowT)
      ELSE IF ~up.message.present
         THEN AppendLoop(Tail(ups), acc1, nowT)
      ELSE IF TrimSpace(up.message.text) = <<>>
         THEN AppendLoop(Tail(ups), acc1, nowT)
      ELSE AppendLoop(Tail(ups),
                      [acc1 EXCEPT !.entries = Append(@, NewEntry(up, nowT)),
                                   !.existing = @ \cup {up.update_id},
                                   !.added = @ + 1],
                      nowT)

EntryLessReversed(a, b) == a.update_id > b.update_id

\* The order sort.Slice puts the entries in.
EntryLess(a, b) == a.update_id < b.update_id

RECURSIVE InsertSorted(_, _)
InsertSorted(e, es) ==
    IF es = <<>> THEN <<e>>
    ELSE IF EntryLess(e, Head(es)) THEN <<e>> \o es
    ELSE <<Head(es)>> \o InsertSorted(e, Tail(es))

RECURSIVE SortEntries(_)
SortEntries(es) ==
    IF es = <<>> THEN <<>>
    ELSE InsertSorted(Head(es), SortEntries(Tail(es)))

\* A cut that keeps the head of the slice.
TruncateKeepsOldest(es) ==
    IF Len(es) > telegramInboxMaxEntries
       THEN SubSeq(es, 1, telegramInboxMaxEntries)
       ELSE es

\* state.Entries[len-telegramInboxMaxEntries:]
Truncate(es) ==
    IF Len(es) > telegramInboxMaxEntries
       THEN SubSeq(es, Len(es) - telegramInboxMaxEntries + 1, Len(es))
       ELSE es

\* An append that admits nothing and leaves the offset where it was.
AppendBodyKeepsOffset(file, ups, nowT) ==
    [save   |-> TRUE,
     state  |-> loadPruned(file, nowT).state,
     added  |-> 0,
     offset |-> file.next]

\* The body AppendUpdates runs under the lock on a non-empty batch: the
\* state it saves, the number added and the offset it returns.
AppendBody(file, ups, nowT) ==
    LET st  == loadPruned(file, nowT).state
        acc == AppendLoop(ups,
                          [entries   |-> st.entries,
                           existing  |-> {st.entries[i].update_id : i \in DOMAIN st.entries},
                           maxUpdate |-> 0,
                           added     |-> 0],
                          nowT)
        nxt == IF acc.maxUpdate > 0 /\ acc.maxUpdate + 1 > st.next
                  THEN acc.maxUpdate + 1
                  ELSE st.next
    IN [save   |-> TRUE,
        state  |-> [next |-> nxt, entries |-> Truncate(SortEntries(acc.entries))],
        added  |-> acc.added,
        offset |-> nxt]

\* The body NextOffset runs under the lock: saves only when pruning changed
\* the state.
NextOffsetBody(file, nowT) ==
    LET l == loadPruned(file, nowT) IN
    [save |-> l.changed, state |-> l.state, added |-> 0, offset |-> l.state.next]

-----------------------------------------------------------------------------
(* The inbox store: ClaimForRequest *)

\* matchesByReply := targetMessageID > 0 && entry.ReplyToMessageID == targetMessageID
MatchesByReply(e, target) == target > 0 /\ e.reply_to = target

IsAmbiguousNever(e, target) == FALSE

\* Multi-pending: ambiguous free text, dropped with needsReminder.
IsAmbiguous(e, target) == e.reply_to = 0 /\ e.message_id > target

\* Multi-pending: pre-request chatter, dropped quietly.
IsStaleChatter(e, target) == e.reply_to = 0 /\ e.message_id <= target

IsForeignReplyNever(e, target) == FALSE

\* Single-pending: a reply to some other prompt, dropped.
IsForeignReply(e, target) == e.reply_to # 0 /\ e.reply_to # target

IsPreRequestNever(e, target) == FALSE

\* Single-pending: pre-request chatter, dropped.
IsPreRequest(e, target) == e.message_id <= target

\* Single-pending fallback: a newer message is accepted.
IsNewer(e, target) == e.message_id > target

MultiPendingAtOne(pcount) == pcount > 0

MultiPendingNever(pcount) == FALSE

\* if pendingCount > 1
MultiPending(pcount) == pcount > 1

\* The scan of ClaimForRequest: rest is still to be visited, kept is what
\* stays in state.Entries before the cursor.
RECURSIVE ClaimScan(_, _, _, _, _)
ClaimScan(rest, kept, a, rem, chg) ==
    IF rest = <<>>
       THEN [entries |-> kept, claimed |-> <<>>, needsReminder |-> rem, changed |-> chg]
    ELSE
      LET e == Head(rest)
          t == Tail(rest)
          claimIt == [entries |-> kept \o t, claimed |-> <<e>>,
                      needsReminder |-> rem, changed |-> TRUE]
      IN
      IF e.chat_id # a.chat THEN ClaimScan(t, Append(kept, e), a, rem, chg)
      ELSE IF MatchesByReply(e, a.target) THEN claimIt
      ELSE IF MultiPending(a.pcount) THEN
           IF IsAmbiguous(e, a.target) THEN ClaimScan(t, kept, a, TRUE, TRUE)
           ELSE IF IsStaleChatter(e, a.target) THEN ClaimScan(t, kept, a, rem, TRUE)
           ELSE ClaimScan(t, Append(kept, e), a, rem, chg)
      ELSE IF IsForeignReply(e, a.target) THEN ClaimScan(t, kept, a, rem, TRUE)
      ELSE IF IsPreRequest(e, a.target) THEN ClaimScan(t, kept, a, rem, TRUE)
      ELSE IF IsNewer(e, a.target) THEN claimIt
      ELSE ClaimScan(t, Append(kept, e), a, rem, chg)

\* The body ClaimForRequest runs under the lock; a is [chat, target, pcount].
\* It saves only when the scan changed the entries.
ClaimBody(file, a, nowT) ==
    LET st == loadPruned(file, nowT).state
        r  == ClaimScan(st.entries, <<>>, a, FALSE, FALSE)
    IN [save          |-> r.changed,
        state         |-> [st EXCEPT !.entries = r.entries],
        scanned       |-> st.entries,
        claimed       |-> r.claimed,
        needsReminder |-> r.needsReminder]

-----------------------------------------------------------------------------
(* SpecInboxSeq: one caller at a time uses the inbox store, each call run  *)
(* whole (lock taken, body, save, lock given back).                        *)

Chats == {1, 2}
MsgIds == {1, 3}
ReplyIds == {0, 2, 4}
Targets == {2}
UpdateIds == 1..MaxUpd
PendingCounts == 0..MaxPending

\* A text with white space around it, and a blank one.
PaddedText == <<" ", "a", " ">>
BlankText == <<" ">>

\* The messages of the first chat, and one of another chat that is threaded
\* to the same message id.
Messages ==
    {Message(m, 1, r, PaddedText) : m \in MsgIds, r \in ReplyIds}
    \cup {Message(3, 2, 2, PaddedText), Message(3, 1, 0, BlankText)}

\* The updates a getUpdates batch may carry.
Updates == {Update(u, msg) : u \in UpdateIds, msg \in Messages \cup {NoMessage}}

\* Batches of one update, and of two in either order of their ids.
Batches ==
    {<<u>> : u \in Updates} \cup
    {<<u, v>> : u \in Updates,
                v \in {Update(w, msg) : w \in UpdateIds,
                                        msg \in {NoMessage, Message(3, 1, 0, PaddedText)}}}

ClaimArgs == [chat : Chats, target : Targets, pcount : PendingCounts]

NoArgs == [chat |-> 0, target |-> 0, pcount |-> 0]

\* No call made yet.
NoOp ==
    [kind |-> "none", a |-> NoArgs, at |-> 0, prevNext |-> 0,
     scanned |-> <<>>, claimed |-> <<>>, needsReminder |-> FALSE,
     added |-> 0, offset |-> 0,
     repeat |-> FALSE, prevNone |-> FALSE, prevAmbiguous |-> FALSE]

\* saveLocked when the body asks for it.
Saved(file, r) == IF r.save THEN r.state ELSE file

\* Host names: "m" is this machine's name, "x" another machine's.
HostNames == {<<>>, <<" ", "m">>, <<"x">>}

\* The machine and the bot: what os.Hostname() returns (empty when it
\* fails), whether getWebhookInfo reports a url for the bot, and the store
\* files that are not empty and cannot be parsed.
Envs == [hostname : {<<>>, <<"M", " ">>}, webhook : {FALSE}, corrupt : {{}}]
ThisMachine == [hostname |-> <<"M", " ">>, webhook |-> FALSE, corrupt |-> {}]
WebhookEnvs == [hostname : {<<"M", " ">>}, webhook : BOOLEAN, corrupt : {{}}]

\* loadLocked of the pending store fails: "parse telegram pending store".
PendingCorrupt == "pending" \in env.corrupt

\* The ask command has written nothing and has not returned.
NoOutput == [stdout |-> <<>>, exit |-> "none"]

\* Nothing handled yet by a Receive loop.
NoScan == [uid |-> 0, count |-> 0, before |-> "never", reminded |-> FALSE,
           returned |-> FALSE]

\* NewTelegram: the provider of a process whose chat is linked (chat 1).
NewTelegram ==
    [chatID |-> 1, nextUpdateID |-> 0, sentID |-> 0, target |-> 0, inMemory |-> FALSE,
     batch |-> <<>>, lastReminder |-> "never", reply |-> <<>>,
     outcome |-> "none", scan |-> NoScan, dropped |-> {}, deadline |-> 2,
     storeErr |-> FALSE]

\* No pending record for a request.
NoRecord ==
    [present |-> FALSE, chat_id |-> 0, message_id |-> 0, created_at |-> ZeroTime,
     expires_at |-> ZeroTime, owner_pid |-> 0, owner_host |-> <<>>]

\* telegramPendingRecord, as a caller hands it to Upsert.
PendingRecord(chat, mid, created, expires, pid, host) ==
    [present |-> TRUE, chat_id |-> chat, message_id |-> mid, created_at |-> created,
     expires_at |-> expires, owner_pid |-> pid, owner_host |-> host]

\* The pending store counts time in units of twelve hours.
telegramPendingLegacyTTL == 2

\* strings.ToLower, on the letters in use.
Lowers == <<"a", "b", "e", "h", "m", "o", "r", "t", "x">>
Uppers == <<"A", "B", "E", "H", "M", "O", "R", "T", "X">>
LowerOf(c) ==
    IF \E i \in DOMAIN Uppers : Uppers[i] = c
       THEN Lowers[CHOOSE i \in DOMAIN Uppers : Uppers[i] = c]
       ELSE c
ToLower(s) == [i \in 1..Len(s) |-> LowerOf(s[i])]

\* strings.EqualFold
EqualFold(s, t) == ToLower(s) = ToLower(t)

\* loadTelegramLocalHostname: "" when os.Hostname() fails.
telegramLocalHostname == ToLower(TrimSpace(env.hostname))

\* isTelegramPendingOrphaned: the owner is a process of this machine that no
\* longer runs.  A record without an owner, any record on Windows, and a
\* record that names a host this machine cannot be compared with are never
\* orphans.
OrphanedAlways(rec) == rec.owner_pid > 0 /\ ~processExists(rec.owner_pid)
OrphanedNever(rec) == FALSE
isTelegramPendingOrphaned(rec) ==
    IF rec.owner_pid <= 0 \/ windows THEN FALSE
    ELSE IF rec.owner_host # <<>> /\ telegramLocalHostname = <<>> THEN FALSE
    ELSE IF rec.owner_host # <<>>
            /\ ~EqualFold(TrimSpace(rec.owner_host), telegramLocalHostname) THEN FALSE
    ELSE ~processExists(rec.owner_pid)

\* isTelegramPendingExpired
ExpiredOnlyOrphans(rec, nowT) == isTelegramPendingOrphaned(rec)
isTelegramPendingExpired(rec, nowT) ==
    IF isTelegramPendingOrphaned(rec) THEN TRUE
    ELSE IF rec.expires_at # ZeroTime THEN ~(rec.expires_at > nowT)
    ELSE IF rec.created_at # ZeroTime
         THEN ~(rec.created_at + telegramPendingLegacyTTL > nowT)
    ELSE FALSE

\* pruneExpiredPendingRecords: the state without its expired records, whether
\* any was deleted, and the deleted records.
pruneExpiredPendingRecords(state, nowT) ==
    [state   |-> [k \in DOMAIN state |->
                     IF state[k].present /\ isTelegramPendingExpired(state[k], nowT)
                     THEN NoRecord ELSE state[k]],
     changed |-> \E k \in DOMAIN state :
                     state[k].present /\ isTelegramPendingExpired(state[k], nowT),
     removed |-> {state[k] : k \in {j \in DOMAIN state :
                     state[j].present /\ isTelegramPendingExpired(state[j], nowT)}}]

\* loadPrunedLocked(now)
loadPrunedLocked(file, nowT) == pruneExpiredPendingRecords(file, nowT)

\* The body of Upsert(rec) for request k: the zero times are filled in, the
\* loaded state is pruned, the record is put in, the state is saved.
UpsertBody(file, k, rec, nowT) ==
    LET c == IF rec.created_at = ZeroTime THEN nowT ELSE rec.created_at
        e == IF rec.expires_at = ZeroTime THEN c + telegramPendingLegacyTTL
             ELSE rec.expires_at
        filled == [rec EXCEPT !.created_at = c, !.expires_at = e]
        l == loadPrunedLocked(file, nowT)
    IN [file |-> [l.state EXCEPT ![k] = filled], found |-> FALSE, count |-> 0,
        changed |-> l.changed, removed |-> l.removed]

\* The body of Get(requestID): the pruned state is saved when pruning changed
\* it; the record is looked up in the pruned state.
GetBody(file, k, nowT) ==
    LET l == loadPrunedLocked(file, nowT)
    IN [file |-> IF l.changed THEN l.state ELSE file,
        found |-> l.state[k].present, count |-> 0, changed |-> l.changed,
        removed |-> l.removed]

\* The body of Delete(requestID)
DeleteBody(file, k, nowT) ==
    LET l == loadPrunedLocked(file, nowT)
    IN [file |-> [l.state EXCEPT ![k] = NoRecord], found |-> FALSE, count |-> 0,
        changed |-> l.changed, removed |-> l.removed]

\* The body of CountByChat(chatID)
CountByChatBody(file, chat, nowT) ==
    LET l == loadPrunedLocked(file, nowT)
    IN [file |-> IF l.changed THEN l.state ELSE file, found |-> FALSE,
        changed |-> l.changed, removed |-> l.removed,
        count |-> Cardinality({k \in DOMAIN l.state :
                      l.state[k].present /\ l.state[k].chat_id = chat})]

\* msgs[u]: the message of update u; multi: the updates that arrived while
\* more than one request was pending in their chat; registered: those that
\* replied to the prompt of a request whose record was in the store.
NoHistory == [msgs |-> <<>>, multi |-> {}, registered |-> {}, reminders |-> 0]

\* No store call in progress.
IdleLocal ==
    [stage |-> "none", op |-> "none", batch |-> <<>>, a |-> NoArgs,
     loaded |-> EmptyInbox, off |-> 0, calls |-> 0]

\* The Bot API before any update: update ids and message ids count from 1.
EmptyUpstream == [queue |-> <<>>, nextUid |-> 1, nextMid |-> 1]

InboxInit ==
    /\ now = 1
    /\ inbox = EmptyInbox
    /\ lastOp = NoOp
    /\ local = [p \in Procs |-> IdleLocal]
    /\ admitted = [u \in UpdateIds |-> 0]
    /\ upstream = EmptyUpstream
    /\ pc = [p \in Procs |-> "init"]
    /\ prov = [p \in Procs |-> NewTelegram]
    /\ pending = [p \in Procs |-> NoRecord]
    /\ hist = NoHistory
    /\ env = ThisMachine
    /\ out = [p \in Procs |-> NoOutput]

\* store.AppendUpdates(batch)
SeqAppendUpdates(batch) ==
    LET r == IF batch = <<>> THEN NextOffsetBody(inbox, now)
                             ELSE AppendBody(inbox, batch, now)
    IN /\ inbox' = Saved(inbox, r)
       /\ lastOp' = [NoOp EXCEPT !.kind = "append", !.at = now, !.prevNext = inbox.next,
                                 !.added = r.added,
                                 !.offset = r.offset]
       /\ UNCHANGED now

\* store.NextOffset()
SeqNextOffset ==
    LET r == NextOffsetBody(inbox, now)
    IN /\ inbox' = Saved(inbox, r)
       /\ lastOp' = [NoOp EXCEPT !.kind = "next", !.at = now, !.prevNext = inbox.next,
                                 !.offset = r.offset]
       /\ UNCHANGED now

\* A message of the request's chat that replies to nothing and was sent
\* after the request's prompt.
FreeTextAfter(e, a) == e.chat_id = a.chat /\ e.reply_to = 0 /\ e.message_id > a.target

\* A message of the request's chat that replies to the request's prompt.
ThreadedTo(e, a) == e.chat_id = a.chat /\ a.target > 0 /\ e.reply_to = a.target

\* store.ClaimForRequest(chat, target, pcount)
SeqClaimForRequest(a) ==
    LET r == ClaimBody(inbox, a, now)
    IN /\ inbox' = Saved(inbox, r)
       /\ lastOp' =
            [NoOp EXCEPT
               !.kind = "claim", !.a = a, !.at = now, !.prevNext = inbox.next,
               !.scanned = r.scanned, !.claimed = r.claimed,
               !.needsReminder = r.needsReminder,
               !.repeat = (lastOp.kind = "claim" /\ lastOp.a = a /\ lastOp.at = now),
               !.prevNone = (lastOp.claimed = <<>>),
               !.prevAmbiguous =
                   (\E i \in DOMAIN lastOp.scanned : FreeTextAfter(lastOp.scanned[i], a))]
       /\ UNCHANGED now

\* Five more minutes pass.
Tick ==
    /\ now < MaxNow
    /\ now' = now + 1
    /\ UNCHANGED <<inbox, lastOp>>

InitInboxSeq ==
    /\ alive = [p \in Procs |-> TRUE]
    /\ windows = FALSE
    /\ lockFile = [L \in Locks |-> NoFile]
    /\ lkpc = [p \in Procs |-> [L \in Locks |-> "idle"]]
    /\ InboxInit

NextInboxSeq ==
    \/ \E b \in Batches \cup {<<>>} : SeqAppendUpdates(b) /\ UNCHANGED <<lockVars, concVars, coordVars>>
    \/ SeqNextOffset /\ UNCHANGED <<lockVars, concVars, coordVars>>
    \/ \E a \in ClaimArgs : SeqClaimForRequest(a) /\ UNCHANGED <<lockVars, concVars, coordVars>>
    \/ Tick /\ UNCHANGED <<lockVars, concVars, coordVars>>

SpecInboxSeq == InitInboxSeq /\ [][NextInboxSeq]_vars

-----------------------------------------------------------------------------
(* Properties of ClaimForRequest, checked under SpecInboxSeq               *)

\* The acceptance policy for a request: a reply threaded to its prompt, or,
\* with at most one request pending in the chat, free text newer than it.
Acceptable(e, a) ==
    \/ ThreadedTo(e, a)
    \/ a.pcount <= 1 /\ FreeTextAfter(e, a)

Claimed == lastOp.kind = "claim"

\* The entries of the inbox after the call.
Remains(e) == \E k \in DOMAIN inbox.entries : inbox.entries[k] = e

\* C6: when two entries with update_id(e1) < update_id(e2) are both
\* acceptable for the request, ClaimForRequest does not return e2, and it
\* returns e1 when no acceptable entry has a smaller update_id.
ClaimOrdering ==
    Claimed =>
      \A i, j \in DOMAIN lastOp.scanned :
         LET e1 == lastOp.scanned[i]
             e2 == lastOp.scanned[j]
         IN (/\ e1.update_id < e2.update_id
             /\ Acceptable(e1, lastOp.a)
             /\ Acceptable(e2, lastOp.a))
            => /\ lastOp.claimed # <<e2>>
               /\ (\A k \in DOMAIN lastOp.scanned :
                      Acceptable(lastOp.scanned[k], lastOp.a)
                         => e1.update_id <= lastOp.scanned[k].update_id)
                  => lastOp.claimed = <<e1>>

ClaimOrderingWitness ==
    /\ Claimed
    /\ \E i, j \in DOMAIN lastOp.scanned :
          /\ lastOp.scanned[i].update_id < lastOp.scanned[j].update_id
          /\ Acceptable(lastOp.scanned[i], lastOp.a)
          /\ Acceptable(lastOp.scanned[j], lastOp.a)
          /\ lastOp.claimed = <<lastOp.scanned[i]>>

\* C7: with at most one request pending in the chat, a call that finds a
\* live free-text message of the chat newer than the prompt returns a reply
\* (that message, unless an acceptable entry precedes it) and needsReminder
\* is false.
SinglePendingFallback ==
    (Claimed /\ lastOp.a.pcount <= 1) =>
      /\ ~lastOp.needsReminder
      /\ \A i \in DOMAIN lastOp.scanned :
            FreeTextAfter(lastOp.scanned[i], lastOp.a) =>
               /\ lastOp.claimed # <<>>
               /\ (\A k \in 1..(i - 1) : ~Acceptable(lastOp.scanned[k], lastOp.a))
                     => lastOp.claimed = <<lastOp.scanned[i]>>

SinglePendingFallbackWitness ==
    /\ Claimed
    /\ lastOp.a.pcount = 1
    /\ ~lastOp.needsReminder
    /\ \E i \in DOMAIN lastOp.scanned :
          /\ FreeTextAfter(lastOp.scanned[i], lastOp.a)
          /\ lastOp.claimed = <<lastOp.scanned[i]>>
          /\ ~Remains(lastOp.scanned[i])

\* With more than one request pending, ClaimForRequest returns nothing that
\* is not threaded to the prompt.
NeverNonThreaded ==
    (Claimed /\ lastOp.a.pcount > 1) =>
       \/ lastOp.claimed = <<>>
       \/ ThreadedTo(lastOp.claimed[1], lastOp.a)

\* C9 as stated: with more than one request pending, ClaimForRequest never
\* returns a non-threaded entry; every free-text message of the chat newer
\* than the prompt is removed and makes needsReminder true; and a call
\* repeated at once after one that met such a message returns (none, false).
MultiPendingQuarantineAsStated ==
    /\ NeverNonThreaded
    /\ (Claimed /\ lastOp.a.pcount > 1) =>
         /\ \A i \in DOMAIN lastOp.scanned :
               FreeTextAfter(lastOp.scanned[i], lastOp.a) =>
                  ~Remains(lastOp.scanned[i]) /\ lastOp.needsReminder
         /\ (lastOp.repeat /\ lastOp.prevAmbiguous) =>
               lastOp.claimed = <<>> /\ ~lastOp.needsReminder

\* C9, amended: with more than one request pending, ClaimForRequest never
\* returns a non-threaded entry; every free-text message of the chat newer
\* than the prompt that no reply threaded to the prompt precedes in the
\* inbox is removed and makes needsReminder true; and a call repeated at
\* once after one that returned nothing returns (none, false).
MultiPendingQuarantine ==
    /\ NeverNonThreaded
    /\ (Claimed /\ lastOp.a.pcount > 1) =>
         /\ \A i \in DOMAIN lastOp.scanned :
               (/\ FreeTextAfter(lastOp.scanned[i], lastOp.a)
                /\ \A k \in 1..(i - 1) : ~ThreadedTo(lastOp.scanned[k], lastOp.a))
               => ~Remains(lastOp.scanned[i]) /\ lastOp.needsReminder
         /\ (lastOp.repeat /\ lastOp.prevNone) =>
               lastOp.claimed = <<>> /\ ~lastOp.needsReminder

\* A repeated call after one that dropped an ambiguous message and returned
\* (none, true).
MultiPendingQuarantineWitness ==
    /\ Claimed
    /\ lastOp.a.pcount > 1
    /\ lastOp.repeat
    /\ lastOp.prevNone
    /\ lastOp.prevAmbiguous
    /\ lastOp.claimed = <<>>
    /\ ~lastOp.needsReminder

-----------------------------------------------------------------------------
(* SpecLock: processes taking and giving back the three locks around an    *)
(* fn that only returns.                                                   *)

\* fn returns (nil or an error): the deferred Remove runs next.
FnReturn(p, L) ==
    /\ alive[p]
    /\ lkpc[p][L] = "held"
    /\ SetPc(p, L, "release")
    /\ UNCHANGED <<alive, windows, lockFile>>
    /\ UNCHANGED nonLockVars

InitLock ==
    /\ alive = [p \in Procs |-> TRUE]
    /\ windows \in BOOLEAN
    /\ lockFile = [L \in Locks |-> NoFile]
    /\ lkpc = [p \in Procs |-> [L \in Locks |-> "idle"]]
    /\ InboxInit

NextLock ==
    \/ \E p \in Procs, L \in Locks : LockBegin(p, L)
    \/ \E p \in Procs, L \in Locks : LockOpen(p, L)
    \/ \E p \in Procs, L \in Locks : LockWritePid(p, L)
    \/ \E p \in Procs, L \in Locks : LockStat(p, L)
    \/ \E p \in Procs, L \in Locks : LockUnlink(p, L)
    \/ \E p \in Procs, L \in Locks : LockRetry(p, L)
    \/ \E p \in Procs, L \in Locks : LockTimeout(p, L)
    \/ \E p \in Procs, L \in Locks : FnReturn(p, L)
    \/ \E p \in Procs, L \in Locks : LockRelease(p, L)
    \/ \E L \in Locks : LockAges(L)
    \/ \E p \in Procs : Crash(p)

SpecLock == InitLock /\ [][NextLock]_vars

\* SpecLockCrash: the same processes on a non-Windows host where no lock file
\* outlives its MaxAge: a lock is reclaimed only from a dead holder.
InitLockCrash ==
    /\ InitLock
    /\ ~windows

NextLockCrash ==
    \/ \E p \in Procs, L \in Locks : LockBegin(p, L)
    \/ \E p \in Procs, L \in Locks : LockOpen(p, L)
    \/ \E p \in Procs, L \in Locks : LockWritePid(p, L)
    \/ \E p \in Procs, L \in Locks : LockStat(p, L)
    \/ \E p \in Procs, L \in Locks : LockUnlink(p, L)
    \/ \E p \in Procs, L \in Locks : LockRetry(p, L)
    \/ \E p \in Procs, L \in Locks : LockTimeout(p, L)
    \/ \E p \in Procs, L \in Locks : FnReturn(p, L)
    \/ \E p \in Procs, L \in Locks : LockRelease(p, L)
    \/ \E p \in Procs : Crash(p)

SpecLockCrash == InitLockCrash /\ [][NextLockCrash]_vars

TypeLock ==
    /\ alive \in [Procs -> BOOLEAN]
    /\ windows \in BOOLEAN
    /\ lockFile \in [Locks -> LockFiles]
    /\ lkpc \in [Procs -> [Locks -> LockPcs]]

-----------------------------------------------------------------------------
\* C1: at no instant are two processes both running fn with the poller
\* lock held, crashed holders and stale reclamation included.
PollerLockMutex ==
    \A p, q \in Procs : (InFn(p, "poller") /\ InFn(q, "poller")) => p = q

\* C2: for each of the pending and inbox stores, at most one process at a
\* time is inside the body run by withLock.
StoreLockMutex ==
    \A L \in StoreLocks :
        \A p, q \in Procs : (InFn(p, L) /\ InFn(q, L)) => p = q

-----------------------------------------------------------------------------
(* SpecInbox: processes calling the inbox store at the same time.  Each    *)
(* call takes inbox.lock step by step; its body reads the file             *)
(* (loadLocked), and later computes and writes (saveLocked).               *)

\* The batches and arguments the concurrent callers use.
ConcMessage == Message(3, 1, 2, PaddedText)
ConcBatches == {<<Update(u, ConcMessage)>> : u \in UpdateIds}
ConcArgs == {[chat |-> 1, target |-> 2, pcount |-> 1]}
ConcCalls ==
    {[op |-> "next", batch |-> <<>>, a |-> NoArgs]}
    \cup {[op |-> "append", batch |-> b, a |-> NoArgs] : b \in ConcBatches}
    \cup {[op |-> "claim", batch |-> <<>>, a |-> a] : a \in ConcArgs}

\* The update ids a call added to the entries it had loaded.
AdmittedBy(before, after) ==
    {after[i].update_id : i \in DOMAIN after}
       \ {before[i].update_id : i \in DOMAIN before}

CountAdmitted(ids) ==
    [u \in UpdateIds |-> IF u \in ids /\ admitted[u] < 2 THEN admitted[u] + 1
                                                         ELSE admitted[u]]

\* What the body of a call computes from the state it loaded.
CallBody(c, file, nowT) ==
    IF c.op = "append" THEN
       LET r == AppendBody(file, c.batch, nowT)
       IN [save |-> r.save, state |-> r.state, offset |-> r.offset, added |-> r.added,
           scanned |-> <<>>, claimed |-> <<>>, needsReminder |-> FALSE]
    ELSE IF c.op = "claim" THEN
       LET r == ClaimBody(file, c.a, nowT)
       IN [save |-> r.save, state |-> r.state, offset |-> 0, added |-> 0,
           scanned |-> r.scanned, claimed |-> r.claimed,
           needsReminder |-> r.needsReminder]
    ELSE
       LET r == NextOffsetBody(file, nowT)
       IN [save |-> r.save, state |-> r.state, offset |-> r.offset, added |-> 0,
           scanned |-> <<>>, claimed |-> <<>>, needsReminder |-> FALSE]

\* A process makes its next call of an inbox-store operation.
InboxBegin(p) ==
    /\ local[p].calls < MaxCalls
    /\ LockBegin(p, "inbox")

\* loadLocked: os.ReadFile of the inbox file, inside the body of call c.
InboxLoad(p, c) ==
    /\ InFn(p, "inbox")
    /\ local[p].stage = "none"
    /\ local' = [local EXCEPT ![p] =
                    [IdleLocal EXCEPT !.stage = "loaded", !.op = c.op,
                                      !.batch = c.batch, !.a = c.a,
                                      !.loaded = inbox,
                                      !.calls = local[p].calls + 1]]
    /\ UNCHANGED <<lockVars, inboxVars, admitted, upstream, coordVars>>

\* The rest of the body: prune, modify, saveLocked (when the body saves),
\* and the return from fn.
InboxSave(p) ==
    /\ InFn(p, "inbox")
    /\ local[p].stage = "loaded"
    /\ LET c == local[p]
           r == CallBody(c, c.loaded, now)
       IN /\ inbox' = Saved(inbox, r)
          /\ lastOp' = [NoOp EXCEPT !.kind = c.op, !.a = c.a, !.at = now,
                                    !.prevNext = inbox.next,
                                    !.scanned = r.scanned, !.claimed = r.claimed,
                                    !.needsReminder = r.needsReminder,
                                    !.added = r.added, !.offset = r.offset]
    /\ local' = [local EXCEPT ![p] = [IdleLocal EXCEPT !.calls = local[p].calls]]
    /\ SetPc(p, "inbox", "release")
    /\ UNCHANGED <<alive, windows, lockFile, now, admitted, upstream, coordVars>>

InitInbox ==
    /\ alive = [p \in Procs |-> TRUE]
    /\ windows = FALSE
    /\ lockFile = [L \in Locks |-> NoFile]
    /\ lkpc = [p \in Procs |-> [L \in Locks |-> "idle"]]
    /\ InboxInit

NextInbox ==
    \/ \E p \in Procs : InboxBegin(p)
    \/ \E p \in Procs : LockOpen(p, "inbox")
    \/ \E p \in Procs : LockWritePid(p, "inbox")
    \/ \E p \in Procs : LockStat(p, "inbox")
    \/ \E p \in Procs : LockUnlink(p, "inbox")
    \/ \E p \in Procs : LockRetry(p, "inbox")
    \/ \E p \in Procs : LockTimeout(p, "inbox")
    \/ \E p \in Procs, c \in ConcCalls : InboxLoad(p, c)
    \/ \E p \in Procs : InboxSave(p)
    \/ \E p \in Procs : LockRelease(p, "inbox")
    \/ \E p \in Procs : Crash(p)

SpecInbox == InitInbox /\ [][NextInbox]_vars

\* C4: each persisted inbox state has next_offset greater than or equal to
\* that of the state persisted before it.
NextOffsetNeverDecreases ==
    lastOp.kind # "none" => inbox.next >= lastOp.prevNext

-----------------------------------------------------------------------------
(* SpecPoll: processes running the poll cycle                              *)
(*   try_with_lock { next_offset; get_updates(offset); append_updates }    *)
(* and claiming from the inbox.  telegram-poller.lock is taken step by     *)
(* step; each inbox-store call runs whole.                                 *)

\* The Bot API's getUpdates: a call with an offset confirms (forgets) every
\* update below it; the updates still held are returned.
Confirm(queue, offset) ==
    IF offset > 0
       THEN SelectSeq(queue, LAMBDA u : u.update_id >= offset)
       ELSE queue

\* A human message reaches the bot: the next update id, the next message id.
Arrive(msg) ==
    /\ upstream.nextUid <= MaxUpd
    /\ upstream' = [upstream EXCEPT
                       !.queue = Append(@, Update(upstream.nextUid, msg)),
                       !.nextUid = @ + 1]
    /\ UNCHANGED <<lockVars, inboxVars, local, admitted, coordVars>>

\* A process starts a poll cycle: try_with_lock.
PollBegin(p) ==
    /\ local[p].calls < MaxCalls
    /\ LockBegin(p, "poller")

\* Under the poller lock: offset = inbox.next_offset().
PollNextOffset(p) ==
    /\ InFn(p, "poller")
    /\ local[p].stage = "none"
    /\ LET r == NextOffsetBody(inbox, now)
       IN /\ inbox' = Saved(inbox, r)
          /\ lastOp' = [NoOp EXCEPT !.kind = "next", !.at = now,
                                    !.prevNext = inbox.next, !.offset = r.offset]
          /\ local' = [local EXCEPT ![p] =
                          [IdleLocal EXCEPT !.stage = "offset", !.op = "poll",
                                            !.off = r.offset,
                                            !.calls = local[p].calls + 1]]
    /\ UNCHANGED <<lockVars, now, admitted, upstream, coordVars>>

\* Under the poller lock: batch = get_updates(offset).
PollGetUpdates(p) ==
    /\ InFn(p, "poller")
    /\ local[p].stage = "offset"
    /\ LET held == Confirm(upstream.queue, local[p].off)
       IN /\ upstream' = [upstream EXCEPT !.queue = held]
          /\ local' = [local EXCEPT ![p] = [@ EXCEPT !.stage = "fetched", !.batch = held]]
    /\ UNCHANGED <<lockVars, inboxVars, admitted, coordVars>>

\* Under the poller lock: inbox.append_updates(batch); fn returns.
PollAppend(p) ==
    /\ InFn(p, "poller")
    /\ local[p].stage = "fetched"
    /\ LET b == local[p].batch
           r == IF b = <<>> THEN NextOffsetBody(inbox, now)
                            ELSE AppendBody(inbox, b, now)
       IN /\ inbox' = Saved(inbox, r)
          /\ lastOp' = [NoOp EXCEPT !.kind = "append", !.at = now,
                                    !.prevNext = inbox.next,
                                    !.added = r.added, !.offset = r.offset]
          /\ admitted' = CountAdmitted(AdmittedBy(loadPruned(inbox, now).state.entries,
                                                  r.state.entries))
    /\ local' = [local EXCEPT ![p] = [IdleLocal EXCEPT !.calls = local[p].calls]]
    /\ SetPc(p, "poller", "release")
    /\ UNCHANGED <<alive, windows, lockFile, now, upstream, coordVars>>

\* Outside the poll cycle: inbox.claim_for_request(chat, target, pending).
PollClaim(p, a) ==
    /\ alive[p]
    /\ \A L \in Locks : lkpc[p][L] = "idle"
    /\ LET r == ClaimBody(inbox, a, now)
       IN /\ inbox' = Saved(inbox, r)
          /\ lastOp' = [NoOp EXCEPT !.kind = "claim", !.a = a, !.at = now,
                                    !.prevNext = inbox.next,
                                    !.scanned = r.scanned, !.claimed = r.claimed,
                                    !.needsReminder = r.needsReminder]
    /\ UNCHANGED <<lockVars, now, concVars, coordVars>>

InitPoll ==
    /\ alive = [p \in Procs |-> TRUE]
    /\ windows = FALSE
    /\ lockFile = [L \in Locks |-> NoFile]
    /\ lkpc = [p \in Procs |-> [L \in Locks |-> "idle"]]
    /\ InboxInit

NextPoll ==
    \/ Arrive(ConcMessage)
    \/ \E p \in Procs : PollBegin(p)
    \/ \E p \in Procs : LockOpen(p, "poller")
    \/ \E p \in Procs : LockWritePid(p, "poller")
    \/ \E p \in Procs : LockStat(p, "poller")
    \/ \E p \in Procs : LockUnlink(p, "poller")
    \/ \E p \in Procs : LockRetry(p, "poller")
    \/ \E p \in Procs : PollNextOffset(p)
    \/ \E p \in Procs : PollGetUpdates(p)
    \/ \E p \in Procs : PollAppend(p)
    \/ \E p \in Procs : LockRelease(p, "poller")
    \/ \E p \in Procs, a \in ConcArgs : PollClaim(p, a)
    \/ \E p \in Procs : Crash(p)

SpecPoll == InitPoll /\ [][NextPoll]_vars

\* C3: each upstream update id is admitted into the inbox at most once.
NoDuplicateIngestion ==
    \A u \in UpdateIds : admitted[u] <= 1

-----------------------------------------------------------------------------
(* Spec: ask processes running TelegramProvider.Send and Receive against   *)
(* the Bot API while the human writes into the chat.                       *)

Askers == 1..NumAskers

Digits == <<"0", "1", "2", "3", "4", "5", "6", "7", "8", "9">>

\* fmt.Sprintf("%d", n) for n >= 0
RECURSIVE Itoa(_)
Itoa(n) ==
    IF n < 10 THEN <<Digits[n + 1]>>
    ELSE Itoa(n \div 10) \o <<Digits[(n % 10) + 1]>>

\* pendingStore.CountByChat(chatID): the records of the chat.
CountByChat(chat) ==
    Cardinality({q \in Procs : pending[q].present /\ pending[q].chat_id = chat})

\* pendingCountForChat: the store's count, or len(p.pending) when
\* CountByChat returns an error.
pendingCountForChat(p, chat) ==
    IF chat = 0 THEN 0
    ELSE IF PendingCorrupt THEN (IF prov[p].inMemory THEN 1 ELSE 0)
    ELSE CountByChat(chat)

\* getUpdates: the offset is sent when it is positive; the result moves
\* nextUpdateID past its largest update id.
MaxUpdateOf(batch) ==
    IF batch = <<>> THEN 0 ELSE batch[Len(batch)].update_id

AfterGetUpdates(pr, batch) ==
    [pr EXCEPT !.nextUpdateID =
        IF MaxUpdateOf(batch) > 0 /\ MaxUpdateOf(batch) + 1 > @
           THEN MaxUpdateOf(batch) + 1 ELSE @]

\* The human (or anyone in a chat) sends a text message; reply is the id of
\* the message it replies to, 0 for none.
HumanSends(chat, reply, text) ==
    /\ upstream.nextUid <= MaxUpd
    /\ \/ reply = 0
       \/ chat = 1 /\ \E q \in Askers : prov[q].sentID = reply /\ reply > 0
    /\ LET msg == Message(upstream.nextMid, chat, reply, text)
       IN /\ upstream' = [queue   |-> Append(upstream.queue, Update(upstream.nextUid, msg)),
                          nextUid |-> upstream.nextUid + 1,
                          nextMid |-> upstream.nextMid + 1]
          /\ hist' = [hist EXCEPT
                        !.msgs = Append(@, msg),
                        !.multi = IF CountByChat(chat) > 1
                                     THEN @ \cup {upstream.nextUid} ELSE @,
                        !.registered =
                            IF \E q \in Askers : /\ pending[q].present
                                                 /\ pending[q].chat_id = chat
                                                 /\ pending[q].message_id = reply
                               THEN @ \cup {upstream.nextUid} ELSE @]
    /\ UNCHANGED <<env, out, lockVars, inboxVars, local, admitted, pc, prov, pending>>

\* Send: "Drain stale updates so Receive only sees replies after this point."
SendDrain(p) ==
    /\ pc[p] = "init"
    /\ LET batch == Confirm(upstream.queue, prov[p].nextUpdateID)
       IN /\ upstream' = [upstream EXCEPT !.queue = batch]
          /\ prov' = [prov EXCEPT ![p] = AfterGetUpdates(@, batch)]
    /\ pc' = [pc EXCEPT ![p] = "drained"]
    /\ UNCHANGED <<env, out, lockVars, inboxVars, local, admitted, pending, hist>>

\* Send: sendTelegramMessage(chatID, prompt) returns the prompt's message id.
SendPrompt(p) ==
    /\ pc[p] = "drained"
    /\ prov' = [prov EXCEPT ![p] = [@ EXCEPT !.sentID = upstream.nextMid]]
    /\ upstream' = [upstream EXCEPT !.nextMid = @ + 1]
    /\ pc' = [pc EXCEPT ![p] = "prompted"]
    /\ UNCHANGED <<env, out, lockVars, inboxVars, local, admitted, pending, hist>>

\* registerPending without the delete(p.pending, requestID) after a failed
\* Upsert.
registerPendingNoRollback(p) ==
    /\ pc[p] = "prompted"
    /\ IF PendingCorrupt
          THEN /\ prov' = [prov EXCEPT ![p] =
                              [@ EXCEPT !.inMemory = TRUE, !.outcome = "error",
                                        !.storeErr = TRUE]]
               /\ pc' = [pc EXCEPT ![p] = "done"]
               /\ UNCHANGED pending
          ELSE /\ prov' = [prov EXCEPT ![p] = [@ EXCEPT !.inMemory = TRUE]]
               /\ pending' = UpsertBody(pending, p,
                                 PendingRecord(prov[p].chatID, prov[p].sentID, now,
                                               ZeroTime, 0, <<>>), now).file
               /\ pc' = [pc EXCEPT ![p] = "registered"]
    /\ UNCHANGED <<env, out, lockVars, inboxVars, concVars, hist>>

\* Send: registerPending(requestID, chatID, messageID).  When Upsert fails
\* the in-memory entry is taken out again and Send returns the error.
registerPending(p) ==
    /\ pc[p] = "prompted"
    /\ IF PendingCorrupt
          THEN /\ prov' = [prov EXCEPT ![p] =
                              [@ EXCEPT !.inMemory = FALSE, !.outcome = "error",
                                        !.storeErr = TRUE]]
               /\ pc' = [pc EXCEPT ![p] = "done"]
               /\ UNCHANGED pending
          ELSE /\ prov' = [prov EXCEPT ![p] = [@ EXCEPT !.inMemory = TRUE]]
               /\ pending' = UpsertBody(pending, p,
                                 PendingRecord(prov[p].chatID, prov[p].sentID, now,
                                               ZeroTime, 0, <<>>), now).file
               /\ pc' = [pc EXCEPT ![p] = "registered"]
    /\ UNCHANGED <<env, out, lockVars, inboxVars, concVars, hist>>

\* Receive: lookupPending(requestID), from the store or else from memory.
\* An error of Get is printed as a warning and the memory is asked.
lookupPending(p) ==
    /\ pc[p] = "registered"
    /\ LET rec == pending[p]
           err == PendingCorrupt
           fromStore == ~err /\ rec.present /\ rec.chat_id # 0 /\ rec.message_id # 0
           fromMemory == prov[p].inMemory /\ prov[p].sentID # 0 /\ prov[p].chatID # 0
       IN IF fromStore
             THEN /\ prov' = [prov EXCEPT ![p] = [@ EXCEPT !.target = rec.message_id]]
                  /\ pc' = [pc EXCEPT ![p] = "waiting"]
          ELSE IF fromMemory
             THEN /\ prov' = [prov EXCEPT ![p] =
                                 [@ EXCEPT !.target = prov[p].sentID,
                                           !.storeErr = @ \/ err]]
                  /\ pc' = [pc EXCEPT ![p] = "waiting"]
          ELSE /\ prov' = [prov EXCEPT ![p] =
                              [@ EXCEPT !.outcome = "error", !.storeErr = @ \/ err]]
               /\ pc' = [pc EXCEPT ![p] = "done"]
    /\ UNCHANGED <<env, out, lockVars, inboxVars, concVars, pending, hist>>

\* Receive: updates, err := p.getUpdates(ctx), err == nil
RecvGetUpdates(p) ==
    /\ pc[p] = "waiting"
    /\ LET batch == Confirm(upstream.queue, prov[p].nextUpdateID)
       IN /\ upstream' = [upstream EXCEPT !.queue = batch]
          /\ prov' = [prov EXCEPT ![p] = [AfterGetUpdates(@, batch) EXCEPT !.batch = batch]]
          /\ pc' = [pc EXCEPT ![p] = IF batch = <<>> THEN "waiting" ELSE "scan"]
    /\ UNCHANGED <<env, out, lockVars, inboxVars, local, admitted, pending, hist>>

\* Receive: getUpdates fails while the context is still live: return err.
RecvGetUpdatesFails(p) ==
    /\ pc[p] = "waiting"
    /\ prov' = [prov EXCEPT ![p] = [@ EXCEPT !.outcome = "error"]]
    /\ pc' = [pc EXCEPT ![p] = "cleanup"]
    /\ UNCHANGED <<env, out, lockVars, inboxVars, concVars, pending, hist>>

\* A Receive whose context has no deadline: the case is never ready.
RecvNoDeadline(p) ==
    /\ pc[p] = "waiting"
    /\ UNCHANGED vars

\* Receive: case <-ctx.Done(): return ctx.Err()
RecvTimeout(p) ==
    /\ pc[p] = "waiting"
    /\ prov' = [prov EXCEPT ![p] = [@ EXCEPT !.outcome = "timeout"]]
    /\ pc' = [pc EXCEPT ![p] = "cleanup"]
    /\ UNCHANGED <<env, out, lockVars, inboxVars, concVars, pending, hist>>

ReminderDueAlways(pr, count) == TRUE

ReminderDueNoCooldown(pr, count) == ~(count <= 1 \/ pr.chatID = 0)

\* maybeSendThreadingReminder: not when pendingCount <= 1, the chat is
\* unknown, or the last reminder is less than the cooldown ago.
ReminderDue(pr, count) ==
    ~(count <= 1 \/ pr.chatID = 0 \/ pr.lastReminder = "recent")

\* contract.Reply built from the message.
ReplyOf(up) ==
    [text |-> TrimSpace(up.message.text),
     raw |-> TrimSpace(up.message.text),
     provider_message_id |-> Itoa(up.message.message_id),
     update_id |-> up.update_id]

\* Receive: the body of "for _, up := range updates" for the next update.
RecvScan(p) ==
    /\ pc[p] = "scan"
    /\ LET pr    == prov[p]
           up    == Head(pr.batch)
           msg   == up.message
           rest  == Tail(pr.batch)
           next  == IF rest = <<>> THEN "waiting" ELSE "scan"
           skip  == \/ ~msg.present
                    \/ msg.chat_id # pr.chatID
                    \/ TrimSpace(msg.text) = <<>>
           matchesByReply == msg.reply_to # 0 /\ msg.reply_to = pr.target
           count == pendingCountForChat(p, pr.chatID)
       IN IF skip THEN
             /\ prov' = [prov EXCEPT ![p] = [@ EXCEPT !.batch = rest, !.scan = NoScan]]
             /\ pc' = [pc EXCEPT ![p] = next]
             /\ UNCHANGED <<upstream, hist>>
          ELSE IF ~matchesByReply /\ count > 1 THEN
             LET remind == msg.reply_to = 0 /\ ReminderDue(pr, count)
             IN /\ prov' = [prov EXCEPT ![p] =
                              [@ EXCEPT !.batch = rest,
                                        !.dropped = @ \cup {up.update_id},
                                        !.lastReminder = IF remind THEN "recent" ELSE @,
                                        !.scan = [uid |-> up.update_id, count |-> count,
                                                  before |-> pr.lastReminder,
                                                  reminded |-> remind,
                                                  returned |-> FALSE]]]
                /\ pc' = [pc EXCEPT ![p] = next]
                /\ upstream' = [upstream EXCEPT !.nextMid = IF remind THEN @ + 1 ELSE @]
                /\ hist' = [hist EXCEPT !.reminders = IF remind THEN @ + 1 ELSE @]
          ELSE
             /\ prov' = [prov EXCEPT ![p] =
                           [@ EXCEPT !.batch = <<>>,
                                     !.reply = <<ReplyOf(up)>>,
                                     !.outcome = "reply",
                                     !.scan = [uid |-> up.update_id,
                                               count |-> IF matchesByReply THEN 0 ELSE count,
                                               before |-> pr.lastReminder,
                                               reminded |-> FALSE,
                                               returned |-> TRUE]]]
             /\ pc' = [pc EXCEPT ![p] = "cleanup"]
             /\ UNCHANGED <<upstream, hist>>
    /\ UNCHANGED <<env, out, lockVars, inboxVars, local, admitted, pending>>

\* Receive: defer p.clearPending(requestID).  An error of Delete is printed
\* as a warning.
clearPending(p) ==
    /\ pc[p] = "cleanup"
    /\ prov' = [prov EXCEPT ![p] =
                   [@ EXCEPT !.inMemory = FALSE, !.storeErr = @ \/ PendingCorrupt]]
    /\ pending' = IF PendingCorrupt THEN pending
                  ELSE [pending EXCEPT ![p] = NoRecord]
    /\ pc' = [pc EXCEPT ![p] = "done"]
    /\ UNCHANGED <<env, out, lockVars, inboxVars, concVars, hist>>

\* telegramReplyReminderCooldown (20 s) has passed since p's last reminder.
CooldownElapses(p) ==
    /\ prov[p].lastReminder = "recent"
    /\ prov' = [prov EXCEPT ![p] = [@ EXCEPT !.lastReminder = "old"]]
    /\ UNCHANGED <<env, out, lockVars, inboxVars, concVars, pc, pending, hist>>

Init ==
    /\ alive = [p \in Procs |-> TRUE]
    /\ windows = FALSE
    /\ lockFile = [L \in Locks |-> NoFile]
    /\ lkpc = [p \in Procs |-> [L \in Locks |-> "idle"]]
    /\ InboxInit

Next ==
    \/ \E c \in Chats, r \in {0} \cup {prov[q].sentID : q \in Askers},
          t \in {PaddedText, BlankText} : HumanSends(c, r, t)
    \/ \E p \in Askers : SendDrain(p)
    \/ \E p \in Askers : SendPrompt(p)
    \/ \E p \in Askers : registerPending(p)
    \/ \E p \in Askers : lookupPending(p)
    \/ \E p \in Askers : RecvGetUpdates(p)
    \/ \E p \in Askers : RecvGetUpdatesFails(p)
    \/ \E p \in Askers : RecvTimeout(p)
    \/ \E p \in Askers : RecvScan(p)
    \/ \E p \in Askers : clearPending(p)
    \/ \E p \in Askers : CooldownElapses(p)

Spec == Init /\ [][Next]_vars

-----------------------------------------------------------------------------
(* Properties of Send / Receive, checked under Spec                        *)

\* The human message an update id carried.
MsgOf(u) == hist.msgs[u]

\* strconv.Atoi, to read provider_message_id back.
RECURSIVE Atoi(_)
Atoi(str) ==
    IF str = <<>> THEN 0
    ELSE 10 * Atoi(SubSeq(str, 1, Len(str) - 1))
         + (CHOOSE d \in 0..9 : Digits[d + 1] = str[Len(str)])

\* p's request is registered and its Receive has not returned.
Waiting(p) == pc[p] \in {"waiting", "scan"}

\* The human messages with text that replied to p's prompt while p's
\* request was registered.
ThreadedMsgs(p) ==
    {u \in DOMAIN hist.msgs :
        /\ prov[p].target > 0
        /\ u \in hist.registered
        /\ MsgOf(u).chat_id = prov[p].chatID
        /\ MsgOf(u).reply_to = prov[p].target
        /\ TrimSpace(MsgOf(u).text) # <<>>}

\* p's Receive holds update u in its batch or can still fetch it.
Obtainable(p, u) ==
    \/ \E i \in DOMAIN prov[p].batch : prov[p].batch[i].update_id = u
    \/ /\ u >= prov[p].nextUpdateID
       /\ \E i \in DOMAIN upstream.queue : upstream.queue[i].update_id = u

\* C5: a human message with text that replies to the prompt of a registered
\* request reaches that request's coordinator whatever the other processes
\* do: while the coordinator waits, the message stays obtainable by it, and
\* the Reply it returns from such a message has text = trim(m.text) and
\* provider_message_id = str(m.message_id).
ThreadedReplyRoundTrip ==
    \A p \in Askers :
       /\ Waiting(p) => \A u \in ThreadedMsgs(p) : Obtainable(p, u)
       /\ \A i \in DOMAIN prov[p].reply :
             prov[p].reply[i].update_id \in ThreadedMsgs(p) =>
                /\ prov[p].reply[i].text = TrimSpace(MsgOf(prov[p].reply[i].update_id).text)
                /\ Atoi(prov[p].reply[i].provider_message_id)
                      = MsgOf(prov[p].reply[i].update_id).message_id

\* C8: a message that is not threaded to the prompt and whose message_id is
\* at most the prompt's is never returned as the reply; a request that only
\* ever sees such messages ends without a reply.
OlderChatterNeverReply ==
    \A p \in Askers :
       \A i \in DOMAIN prov[p].reply :
          LET m == MsgOf(prov[p].reply[i].update_id)
          IN ~(m.reply_to # prov[p].target /\ m.message_id <= prov[p].target)

\* p's Receive loop has just handled a free-text message of its chat.
HandledFreeText(p) ==
    /\ prov[p].scan.uid > 0
    /\ MsgOf(prov[p].scan.uid).reply_to = 0

\* C10 as stated: whenever a non-threaded text message arrives in a chat
\* while more than one request is pending there, a Receive loop that
\* handles it drops it and sends a reminder.
ReminderOnAmbiguityAsStated ==
    \A p \in Askers :
       (HandledFreeText(p) /\ prov[p].scan.uid \in hist.multi) =>
          ~prov[p].scan.returned /\ prov[p].scan.reminded

\* C10, amended: whenever a Receive loop handles a non-threaded text message
\* of its chat and counts more than one pending request in the chat, it
\* does not return the message, then or later, and it sends a reminder
\* unless its last reminder is less than the 20 s cooldown ago.
ReminderOnAmbiguity ==
    \A p \in Askers :
       /\ (HandledFreeText(p) /\ prov[p].scan.count > 1) =>
             /\ ~prov[p].scan.returned
             /\ prov[p].scan.uid \in prov[p].dropped
             /\ prov[p].scan.reminded <=> prov[p].scan.before # "recent"
       /\ \A i \in DOMAIN prov[p].reply :
             prov[p].reply[i].update_id \notin prov[p].dropped

\* A Receive loop within its cooldown drops a second ambiguous message
\* without a reminder.
ReminderOnAmbiguityWitness ==
    \E p \in Askers :
       /\ HandledFreeText(p)
       /\ prov[p].scan.count > 1
       /\ prov[p].scan.before = "recent"
       /\ ~prov[p].scan.reminded
       /\ hist.reminders > 0

\* C11: within one process no reminder is sent while the last one is less
\* than the 20 s cooldown old, however many messages ask for one, and no
\* reminder is sent when the pending count is at most 1.
ReminderCooldown ==
    \A p \in Askers :
       prov[p].scan.reminded =>
          /\ prov[p].scan.before # "recent"
          /\ prov[p].scan.count > 1

\* A process sends its second reminder, after the cooldown has passed.
ReminderCooldownWitness ==
    \E p \in Askers :
       /\ prov[p].scan.reminded
       /\ prov[p].scan.before = "old"
       /\ prov[p].lastReminder = "recent"
       /\ hist.reminders >= 2

-----------------------------------------------------------------------------
(* The pending store, one call at a time: SpecPending *)

\* The requests whose records the calls write.
Requests == 1..MaxPending

\* The owner a record can name: nobody, or process 1 under one of the host
\* names.
Owners == {<<0, <<>>>>} \cup {<<1, h>> : h \in HostNames}

\* The times a caller can put in a record at time t: none (the store fills
\* them in), a creation time in the past, an expiry in the future, an expiry
\* that has already passed.
RecordTimes(t) == {<<ZeroTime, ZeroTime>>, <<1, ZeroTime>>, <<ZeroTime, t + 1>>,
                   <<ZeroTime, t>>}

\* The records of request 1 are of chat 1 and vary in their times and
\* owners; those of the other requests are of either chat, without times, and
\* owned by nobody or by process 1 of this machine.
RecordsAt(k, t) ==
    IF k = 1
    THEN {PendingRecord(1, 2, ce[1], ce[2], o[1], o[2]) :
             ce \in RecordTimes(t), o \in Owners}
    ELSE {PendingRecord(c, 2, ZeroTime, ZeroTime, 0, <<>>) : c \in Chats}
         \cup {PendingRecord(1, 2, ZeroTime, ZeroTime, 1, <<" ", "m">>)}

\* The last call of the pending store: its kind, its arguments, the time it
\* ran at, the processes that were dead then, and the records it pruned.
PendingOp(kind, k, chat, r) ==
    [kind |-> kind, key |-> k, chat |-> chat, at |-> now, dead |-> Dead,
     removed |-> r.removed]

PendingKinds == {"upsert", "get", "delete", "count"}

\* store.Upsert(rec)
PendUpsert(k, rec) ==
    LET r == UpsertBody(pending, k, rec, now) IN
       /\ pending' = r.file
       /\ lastOp' = PendingOp("upsert", k, rec.chat_id, r)
       /\ UNCHANGED <<lockVars, now, inbox, concVars, pc, prov, hist, env, out>>

\* store.Get(requestID)
PendGet(k) ==
    LET r == GetBody(pending, k, now) IN
       /\ pending' = r.file
       /\ lastOp' = PendingOp("get", k, 0, r)
       /\ UNCHANGED <<lockVars, now, inbox, concVars, pc, prov, hist, env, out>>

\* store.Delete(requestID)
PendDelete(k) ==
    LET r == DeleteBody(pending, k, now) IN
       /\ pending' = r.file
       /\ lastOp' = PendingOp("delete", k, 0, r)
       /\ UNCHANGED <<lockVars, now, inbox, concVars, pc, prov, hist, env, out>>

\* store.CountByChat(chatID)
PendCount(chat) ==
    LET r == CountByChatBody(pending, chat, now) IN
       /\ pending' = r.file
       /\ lastOp' = PendingOp("count", 0, chat, r)
       /\ UNCHANGED <<lockVars, now, inbox, concVars, pc, prov, hist, env, out>>

\* Twelve more hours pass.
PendTick ==
    /\ now < MaxNow
    /\ now' = now + 1
    /\ UNCHANGED <<lockVars, inbox, lastOp, concVars, coordVars>>

InitPending ==
    /\ alive = [p \in Procs |-> TRUE]
    /\ windows \in BOOLEAN
    /\ lockFile = [L \in Locks |-> NoFile]
    /\ lkpc = [p \in Procs |-> [L \in Locks |-> "idle"]]
    /\ now = 1
    /\ inbox = EmptyInbox
    /\ lastOp = NoOp
    /\ local = [p \in Procs |-> IdleLocal]
    /\ admitted = [u \in UpdateIds |-> 0]
    /\ upstream = EmptyUpstream
    /\ pc = [p \in Procs |-> "init"]
    /\ prov = [p \in Procs |-> NewTelegram]
    /\ pending = [p \in Procs |-> NoRecord]
    /\ hist = NoHistory
    /\ env \in Envs
    /\ out = [p \in Procs |-> NoOutput]

NextPending ==
    \/ \E k \in Requests : \E rec \in RecordsAt(k, now) : PendUpsert(k, rec)
    \/ \E k \in Requests : PendGet(k)
    \/ \E k \in Requests : PendDelete(k)
    \/ \E c \in Chats : PendCount(c)
    \/ PendTick
    \/ Crash(1)

SpecPending == InitPending /\ [][NextPending]_vars

-----------------------------------------------------------------------------
(* The pending store: properties *)

\* A call of the pending store has just returned: no time has passed and
\* nobody has died since.
JustAfterPendingOp ==
    /\ lastOp.kind \in PendingKinds
    /\ lastOp.at = now
    /\ lastOp.dead = Dead

\* The record names this machine as its owner's host.
NamesThisHost(rec) ==
    ToLower(TrimSpace(rec.owner_host)) = ToLower(TrimSpace(env.hostname))

\* The record's owner is a process of this machine that no longer runs.
RecordOrphaned(rec) ==
    rec.owner_pid > 0 /\ NamesThisHost(rec) /\ ~alive[rec.owner_pid]

\* The record's expiry has come at time t; a record without one lives 24
\* hours.
RecordExpiredAt(rec, t) ==
    IF rec.expires_at # ZeroTime THEN rec.expires_at <= t
    ELSE rec.created_at # ZeroTime /\ rec.created_at + 2 <= t

RecordExpired(rec) == RecordExpiredAt(rec, now)

\* The call that has just returned wrote the record of request k.
JustWritten(k) == lastOp.kind = "upsert" /\ lastOp.key = k

\* C12 as stated: after any call of the pending store every persisted record,
\* the one just written by Upsert included, is neither expired nor orphaned.
PersistedRecordsLiveAsStated ==
    JustAfterPendingOp =>
       \A k \in DOMAIN pending :
          pending[k].present =>
             ~RecordExpired(pending[k]) /\ ~RecordOrphaned(pending[k])

\* C12: after any call of the pending store every persisted record other
\* than the one Upsert has just written is unexpired, and on a host other
\* than Windows it is no orphan either.
PersistedRecordsLive ==
    JustAfterPendingOp =>
       \A k \in DOMAIN pending :
          (pending[k].present /\ ~JustWritten(k)) =>
             /\ ~RecordExpired(pending[k])
             /\ ~windows => ~RecordOrphaned(pending[k])

\* A count has pruned the store and left a record in it.
PersistedRecordsLiveWitness ==
    /\ JustAfterPendingOp
    /\ lastOp.kind = "count"
    /\ lastOp.removed # {}
    /\ \E k \in DOMAIN pending : pending[k].present

\* C13 as stated: a record of this host whose owner is dead is gone after the
\* next call of the pending store, whatever the call and whatever the
\* record's expiry.
OrphanPruningAsStated ==
    (lastOp.kind \in PendingKinds /\ lastOp.dead = Dead) =>
       \A k \in DOMAIN pending :
          (pending[k].present /\ ~JustWritten(k)) => ~RecordOrphaned(pending[k])

\* C13: on a host other than Windows, a record of this host whose owner is
\* dead is gone after the next call of the pending store, whatever the call
\* and whatever the record's expiry.
OrphanPruning ==
    (~windows /\ lastOp.kind \in PendingKinds /\ lastOp.dead = Dead) =>
       \A k \in DOMAIN pending :
          (pending[k].present /\ ~JustWritten(k)) => ~RecordOrphaned(pending[k])

\* A call other than Upsert has removed an orphan whose expiry lies ahead.
OrphanPruningWitness ==
    /\ ~windows
    /\ lastOp.kind \in {"get", "delete", "count"}
    /\ lastOp.dead = Dead
    /\ \E rec \in lastOp.removed :
          /\ RecordOrphaned(rec)
          /\ rec.owner_host # <<>>
          /\ rec.expires_at > now

\* The record names a host, and it is not this machine.
NamesOtherHost(rec) ==
    /\ TrimSpace(rec.owner_host) # <<>>
    /\ ToLower(TrimSpace(rec.owner_host)) # ToLower(TrimSpace(env.hostname))

\* C14: a record that names another host is pruned only when its expiry has
\* come, never because its owner's pid is not running here.
ForeignHostOnlyByTTL ==
    lastOp.kind \in PendingKinds =>
       \A rec \in lastOp.removed :
          NamesOtherHost(rec) => RecordExpiredAt(rec, lastOp.at)

\* A record of another host, whose owner's pid is not running here and whose
\* expiry lies ahead, is still there after a call that did not write it.
ForeignHostOnlyByTTLWitness ==
    /\ ~windows
    /\ env.hostname # <<>>
    /\ lastOp.kind \in {"get", "count"}
    /\ lastOp.dead = Dead
    /\ \E k \in DOMAIN pending :
          /\ pending[k].present
          /\ NamesOtherHost(pending[k])
          /\ pending[k].owner_pid \in Dead
          /\ pending[k].expires_at > now

-----------------------------------------------------------------------------
(* SpecPendingLock: processes registering and clearing their requests at   *)
(* the same time.  telegram-pending.json.lock is taken step by step, and    *)
(* the body of a call is split into its load and the rest.                  *)

\* How a registered request ends: a reply is returned, the deadline passes,
\* the caller is interrupted.
Terminals == {"reply", "timeout", "cancel"}

\* registerPending's record for the request of process p.
RecordOf(p) == PendingRecord(1, p, now, ZeroTime, 0, <<>>)

\* Send: registerPending calls Upsert; Receive's deferred clearPending calls
\* Delete.
StoreBegin(p) ==
    /\ pc[p] \in {"init", "cleanup"}
    /\ LockBegin(p, "pending")

\* loadLocked: os.ReadFile of the pending file, inside the body.
StoreLoad(p) ==
    /\ InFn(p, "pending")
    /\ local[p].stage = "none"
    /\ local' = [local EXCEPT ![p] =
                    [IdleLocal EXCEPT !.stage = "loaded", !.loaded = pending]]
    /\ UNCHANGED <<lockVars, inboxVars, admitted, upstream, coordVars>>

\* The rest of the body: prune, put or delete the record, saveLocked, and the
\* return from fn.  Send returns the request id; Receive returns.
StoreSave(p) ==
    /\ InFn(p, "pending")
    /\ local[p].stage = "loaded"
    /\ LET r == IF pc[p] = "init"
                THEN UpsertBody(local[p].loaded, p, RecordOf(p), now)
                ELSE DeleteBody(local[p].loaded, p, now)
       IN pending' = r.file
    /\ local' = [local EXCEPT ![p] = IdleLocal]
    /\ pc' = [pc EXCEPT ![p] = IF pc[p] = "init" THEN "registered" ELSE "done"]
    /\ SetPc(p, "pending", "release")
    /\ UNCHANGED <<alive, windows, lockFile, inboxVars, admitted, upstream,
                   prov, hist, env, out>>

\* withLock gives up after telegramPendingLockWait.  registerPending returns
\* the error and Send fails; clearPending prints a warning and Receive
\* returns as it would have.
StoreTimeout(p) ==
    /\ alive[p]
    /\ lkpc[p]["pending"] = "busy"
    /\ SetPc(p, "pending", "idle")
    /\ pc' = [pc EXCEPT ![p] = "done"]
    /\ prov' = [prov EXCEPT ![p] =
                   [@ EXCEPT !.outcome = IF pc[p] = "init" THEN "error" ELSE @]]
    /\ UNCHANGED <<alive, windows, lockFile, inboxVars, concVars, pending,
                   hist, env, out>>

\* Receive leaves its loop: with a reply, on ctx.Done(), on a signal.
Terminal(p, how) ==
    /\ alive[p]
    /\ pc[p] = "registered"
    /\ lkpc[p]["pending"] = "idle"
    /\ pc' = [pc EXCEPT ![p] = "cleanup"]
    /\ prov' = [prov EXCEPT ![p] = [@ EXCEPT !.outcome = how]]
    /\ UNCHANGED <<lockVars, inboxVars, concVars, pending, hist, env, out>>

InitPendingLock ==
    /\ alive = [p \in Procs |-> TRUE]
    /\ windows = FALSE
    /\ lockFile = [L \in Locks |-> NoFile]
    /\ lkpc = [p \in Procs |-> [L \in Locks |-> "idle"]]
    /\ InboxInit

NextPendingLock ==
    \/ \E p \in Procs : StoreBegin(p)
    \/ \E p \in Procs : LockOpen(p, "pending")
    \/ \E p \in Procs : LockWritePid(p, "pending")
    \/ \E p \in Procs : LockStat(p, "pending")
    \/ \E p \in Procs : LockUnlink(p, "pending")
    \/ \E p \in Procs : LockRetry(p, "pending")
    \/ \E p \in Procs : StoreTimeout(p)
    \/ \E p \in Procs : StoreLoad(p)
    \/ \E p \in Procs : StoreSave(p)
    \/ \E p \in Procs : LockRelease(p, "pending")
    \/ \E p \in Procs, how \in Terminals : Terminal(p, how)
    \/ \E p \in Procs : Crash(p)

SpecPendingLock == InitPendingLock /\ [][NextPendingLock]_vars

\* C15: when a registered request has reached Claimed, TimedOut or Cancelled
\* and its owner is alive, its record is not in the pending store.
CleanupOnTerminal ==
    \A p \in Procs :
       (alive[p] /\ pc[p] = "done" /\ prov[p].outcome \in Terminals) =>
          ~pending[p].present

\* C16: the pending file is the map a sequential execution of the calls
\* leaves: the record of a request whose Upsert has returned, and whose Delete
\* has not run yet, is in it (no concurrent Upsert is lost).
PendingStoreIsOneMap ==
    \A p \in Procs :
       pc[p] \in {"registered", "cleanup"} =>
          /\ pending[p].present
          /\ pending[p].message_id = p

-----------------------------------------------------------------------------
(* SpecSend: Send with a deadline, against a bot that may have a webhook   *)

\* Send: the drain's getUpdates is refused while a webhook is set ("409
\* Conflict: can't use getUpdates method while webhook is active"), and Send
\* returns that error.
SendDrainConflict(p) ==
    /\ env.webhook
    /\ pc[p] = "init"
    /\ pc' = [pc EXCEPT ![p] = "done"]
    /\ prov' = [prov EXCEPT ![p] = [@ EXCEPT !.outcome = "error"]]
    /\ UNCHANGED <<env, out, lockVars, inboxVars, concVars, pending, hist>>

\* The deadlines of the context Send is called with.
Deadlines == {2, 4}

InitSend ==
    /\ alive = [p \in Procs |-> TRUE]
    /\ windows = FALSE
    /\ lockFile = [L \in Locks |-> NoFile]
    /\ lkpc = [p \in Procs |-> [L \in Locks |-> "idle"]]
    /\ now = 1
    /\ inbox = EmptyInbox
    /\ lastOp = NoOp
    /\ local = [p \in Procs |-> IdleLocal]
    /\ admitted = [u \in UpdateIds |-> 0]
    /\ upstream = EmptyUpstream
    /\ pc = [p \in Procs |-> "init"]
    /\ \E d \in Deadlines : prov = [p \in Procs |-> [NewTelegram EXCEPT !.deadline = d]]
    /\ pending = [p \in Procs |-> NoRecord]
    /\ hist = NoHistory
    /\ env \in WebhookEnvs
    /\ out = [p \in Procs |-> NoOutput]

\* The bot's server answers getUpdates whether or not a webhook is set, as
\* the server of the tests does, or refuses it, as Telegram's does.
NextSend ==
    \/ \E c \in Chats, r \in {0} \cup {prov[q].sentID : q \in Askers},
          t \in {PaddedText, BlankText} : HumanSends(c, r, t)
    \/ \E p \in Askers : SendDrain(p)
    \/ \E p \in Askers : SendDrainConflict(p)
    \/ \E p \in Askers : SendPrompt(p)
    \/ \E p \in Askers : registerPending(p)

SpecSend == InitSend /\ [][NextSend]_vars

\* C17: while the bot has a webhook, no prompt is sent and no pending record
\* is created: every Send fails.
WebhookPrecondition ==
    env.webhook =>
       \A p \in Askers :
          /\ prov[p].sentID = 0
          /\ ~pending[p].present
          /\ pc[p] \notin {"prompted", "registered"}

\* The grace the expiry of a record adds to the deadline of its request.
telegramPendingExpiryGrace == 1

\* C18: a registered record expires at the deadline of its request plus the
\* grace, which is later than its creation.
ExpiryFromDeadline ==
    \A p \in Askers :
       pending[p].present =>
          /\ pending[p].expires_at = prov[p].deadline + telegramPendingExpiryGrace
          /\ pending[p].expires_at > pending[p].created_at

-----------------------------------------------------------------------------
(* SpecAsk: the ask command, from its arguments to its exit                *)

\* What runAsk can fail on before it calls Send.
AskFailures ==
    {"flags", "question", "choices", "allow-other", "config", "timeout",
     "request-id", "provider"}

\* runAsk up to provider.New: every failure returns the error; nothing has
\* been written to io.Out.
AskPrepare(p, failure) ==
    /\ pc[p] = "ask"
    /\ IF failure = "none"
          THEN /\ pc' = [pc EXCEPT ![p] = "init"]
               /\ UNCHANGED out
          ELSE /\ pc' = [pc EXCEPT ![p] = "exit"]
               /\ out' = [out EXCEPT ![p] = [@ EXCEPT !.exit = failure]]
    /\ UNCHANGED <<lockVars, inboxVars, concVars, prov, pending, hist, env>>

\* Send returns an error: getUpdates, sendTelegramMessage or registerPending
\* failed.
SendFails(p) ==
    /\ pc[p] \in {"init", "drained", "prompted"}
    /\ pc' = [pc EXCEPT ![p] = "done"]
    /\ prov' = [prov EXCEPT ![p] = [@ EXCEPT !.outcome = "error"]]
    /\ UNCHANGED <<env, out, lockVars, inboxVars, concVars, pending, hist>>

\* contract.AskResult of an open question, built from the reply Receive
\* returned (the zero contract.Reply when it returned an error).
AskResultOf(p) ==
    LET reply == IF prov[p].reply = <<>> THEN [text |-> <<>>, raw |-> <<>>]
                 ELSE prov[p].reply[1]
    IN [request_id |-> p, provider |-> "telegram",
        text |-> TrimSpace(reply.text), raw_reply |-> reply.raw]

\* What io.Out holds when runAsk returns: Send's and Receive's errors are
\* returned before the encoder is made; json.Encoder.Encode writes the result.
EmitAlways(p) == Append(out[p].stdout, AskResultOf(p))
Emit(p) ==
    IF prov[p].outcome = "reply"
       THEN Append(out[p].stdout, AskResultOf(p))
       ELSE out[p].stdout

\* runAsk returns after Send and Receive.
AskReturn(p) ==
    /\ pc[p] = "done"
    /\ pc' = [pc EXCEPT ![p] = "exit"]
    /\ out' = [out EXCEPT ![p] =
                  [stdout |-> Emit(p),
                   exit |-> IF prov[p].outcome = "reply" THEN "ok"
                            ELSE prov[p].outcome]]
    /\ UNCHANGED <<lockVars, inboxVars, concVars, prov, pending, hist, env>>

InitAsk ==
    /\ alive = [p \in Procs |-> TRUE]
    /\ windows = FALSE
    /\ lockFile = [L \in Locks |-> NoFile]
    /\ lkpc = [p \in Procs |-> [L \in Locks |-> "idle"]]
    /\ now = 1
    /\ inbox = EmptyInbox
    /\ lastOp = NoOp
    /\ local = [p \in Procs |-> IdleLocal]
    /\ admitted = [u \in UpdateIds |-> 0]
    /\ upstream = EmptyUpstream
    /\ pc = [p \in Procs |-> "ask"]
    /\ prov = [p \in Procs |-> NewTelegram]
    /\ pending = [p \in Procs |-> NoRecord]
    /\ hist = NoHistory
    /\ env = ThisMachine
    /\ out = [p \in Procs |-> NoOutput]

NextAsk ==
    \/ \E r \in {0} \cup {prov[q].sentID : q \in Askers} :
          HumanSends(1, r, PaddedText)
    \/ \E p \in Askers, f \in AskFailures \cup {"none"} : AskPrepare(p, f)
    \/ \E p \in Askers : SendDrain(p)
    \/ \E p \in Askers : SendPrompt(p)
    \/ \E p \in Askers : registerPending(p)
    \/ \E p \in Askers : SendFails(p)
    \/ \E p \in Askers : lookupPending(p)
    \/ \E p \in Askers : RecvGetUpdates(p)
    \/ \E p \in Askers : RecvGetUpdatesFails(p)
    \/ \E p \in Askers : RecvTimeout(p)
    \/ \E p \in Askers : RecvScan(p)
    \/ \E p \in Askers : clearPending(p)
    \/ \E p \in Askers : AskReturn(p)

SpecAsk == InitAsk /\ [][NextAsk]_vars

\* C19: an ask that succeeds has written exactly one JSON object to stdout,
\* and it succeeds only with a reply; an ask that fails, or has not returned
\* yet, has written nothing.
StdoutContract ==
    \A p \in Askers :
       /\ out[p].exit = "ok" =>
             /\ Len(out[p].stdout) = 1
             /\ out[p].stdout[1].request_id = p
             /\ prov[p].outcome = "reply"
       /\ out[p].exit # "ok" => out[p].stdout = <<>>
       /\ (out[p].exit \notin {"ok", "none"}) => prov[p].outcome # "reply"

\* One ask has printed its reply; another has failed on a timeout.
StdoutContractWitness ==
    \E p, q \in Askers :
       /\ out[p].exit = "ok"
       /\ Len(out[p].stdout) = 1
       /\ out[q].exit = "timeout"
       /\ out[q].stdout = <<>>

-----------------------------------------------------------------------------
(* SpecCorrupt: Send and Receive over a pending file that goes bad         *)

\* The store file is overwritten with bytes that are not JSON.
Corrupt(store) ==
    /\ store \notin env.corrupt
    /\ env' = [env EXCEPT !.corrupt = @ \cup {store}]
    /\ UNCHANGED <<lockVars, inboxVars, concVars, pc, prov, pending, hist, out>>

NextCorrupt ==
    \/ \E r \in {0} \cup {prov[q].sentID : q \in Askers} :
          HumanSends(1, r, PaddedText)
    \/ Corrupt("pending")
    \/ \E p \in Askers : SendDrain(p)
    \/ \E p \in Askers : SendPrompt(p)
    \/ \E p \in Askers : registerPending(p)
    \/ \E p \in Askers : lookupPending(p)
    \/ \E p \in Askers : RecvGetUpdates(p)
    \/ \E p \in Askers : RecvGetUpdatesFails(p)
    \/ \E p \in Askers : RecvTimeout(p)
    \/ \E p \in Askers : RecvScan(p)
    \/ \E p \in Askers : clearPending(p)

SpecCorrupt == Init /\ [][NextCorrupt]_vars

\* C20: once a call of the pending store has failed on the corrupt file, the
\* request does not go on waiting for a reply, and it ends with the error.
CorruptStoreFailsLoud ==
    \A p \in Askers :
       prov[p].storeErr =>
          /\ pc[p] \notin {"waiting", "scan"}
          /\ prov[p].outcome \in {"none", "error"}

-----------------------------------------------------------------------------
(* The inbox store: more properties, checked under SpecInboxSeq *)

\* C21: the entry ClaimForRequest returns at time now expires after now, as
\* does every entry it scanned, and right after NextOffset or AppendUpdates at
\* time now every persisted entry expires after now.
InboxTTL ==
    /\ (lastOp.kind = "claim" /\ lastOp.at = now) =>
          /\ \A i \in DOMAIN lastOp.claimed : lastOp.claimed[i].expires_at > now
          /\ \A i \in DOMAIN lastOp.scanned : lastOp.scanned[i].expires_at > now
    /\ (lastOp.kind \in {"next", "append"} /\ lastOp.at = now) =>
          \A i \in DOMAIN inbox.entries : inbox.entries[i].expires_at > now

\* A claim returns an entry ingested at an earlier time; it was the last
\* entry appended and the only one the claim found after pruning.
InboxTTLWitness ==
    /\ lastOp.kind = "claim"
    /\ lastOp.at = now
    /\ lastOp.claimed # <<>>
    /\ lastOp.claimed[1].ingested_at < now
    /\ lastOp.claimed[1].update_id > 1
    /\ lastOp.prevNext = lastOp.claimed[1].update_id + 1
    /\ lastOp.scanned = lastOp.claimed

-----------------------------------------------------------------------------
(* Pruning as a function of the stored state: SpecPrune *)

\* The entries a stored inbox can hold: of chat 1, without an expiry or
\* expiring at one of the times of the model.
PruneEntries ==
    {[update_id |-> 1, chat_id |-> 1, message_id |-> 3, reply_to |-> 0,
      text |-> <<"a">>, ingested_at |-> 1, expires_at |-> x] : x \in 0..MaxNow}

\* The stored inboxes: at most two entries.
PruneInboxes ==
    {[next |-> 0, entries |-> es] :
        es \in {<<>>} \cup {<<e>> : e \in PruneEntries}
                      \cup {<<e, f>> : e \in PruneEntries, f \in PruneEntries}}

\* The stored pending maps: requests 1 and 2 each absent or any record a
\* caller can write at time 1.
PrunePendings ==
    {[p \in Procs |-> IF p = 1 THEN a ELSE IF p = 2 THEN b ELSE NoRecord] :
        a \in RecordsAt(1, 1) \cup {NoRecord},
        b \in RecordsAt(2, 1) \cup {NoRecord}}

\* pruneExpiredInboxEntries(&state, now) on the stored inbox
PruneInbox ==
    LET r == loadPruned(inbox, now) IN
       /\ inbox' = r.state
       /\ lastOp' = [kind |-> "pruneInbox", at |-> now, dead |-> Dead,
                     changed |-> r.changed, before |-> Len(inbox.entries)]
       /\ UNCHANGED <<lockVars, now, concVars, coordVars>>

\* pruneExpiredPendingRecords(state, now) on the stored pending map
PrunePending ==
    LET r == pruneExpiredPendingRecords(pending, now) IN
       /\ pending' = r.state
       /\ lastOp' = [kind |-> "prunePending", at |-> now, dead |-> Dead,
                     changed |-> r.changed,
                     before |-> Cardinality({k \in Procs : pending[k].present})]
       /\ UNCHANGED <<lockVars, now, inbox, concVars, pc, prov, hist, env, out>>

InitPrune ==
    /\ alive = [p \in Procs |-> TRUE]
    /\ windows \in BOOLEAN
    /\ lockFile = [L \in Locks |-> NoFile]
    /\ lkpc = [p \in Procs |-> [L \in Locks |-> "idle"]]
    /\ now \in 1..MaxNow
    /\ inbox \in PruneInboxes
    /\ lastOp = NoOp
    /\ local = [p \in Procs |-> IdleLocal]
    /\ admitted = [u \in UpdateIds |-> 0]
    /\ upstream = EmptyUpstream
    /\ pc = [p \in Procs |-> "init"]
    /\ prov = [p \in Procs |-> NewTelegram]
    /\ pending \in PrunePendings
    /\ hist = NoHistory
    /\ env \in Envs
    /\ out = [p \in Procs |-> NoOutput]

NextPrune ==
    \/ PruneInbox
    \/ PrunePending
    \/ PendTick
    \/ Crash(1)

SpecPrune == InitPrune /\ [][NextPrune]_vars

\* C22: with the time and the live processes of the state, pruning the pruned
\* inbox gives the pruned inbox and reports no change, and pruning the pruned
\* pending map gives the pruned pending map and reports no change.
PruneIdempotent ==
    LET i1 == loadPruned(inbox, now)
        i2 == loadPruned(i1.state, now)
        p1 == pruneExpiredPendingRecords(pending, now)
        p2 == pruneExpiredPendingRecords(p1.state, now)
    IN /\ i2.state = i1.state
       /\ ~i2.changed
       /\ p2.state = p1.state
       /\ ~p2.changed

\* A prune of the pending map has just deleted a record of a dead owner and
\* kept another record, and the stored inbox holds an expired entry before a
\* live one.
PruneIdempotentWitness ==
    /\ lastOp.kind = "prunePending"
    /\ lastOp.changed
    /\ lastOp.at = now
    /\ Dead # {}
    /\ lastOp.before = 2
    /\ Cardinality({k \in Procs : pending[k].present}) = 1
    /\ Len(inbox.entries) = 2
    /\ inbox.entries[1].expires_at = now
    /\ inbox.entries[2].expires_at > now

-----------------------------------------------------------------------------
(* Reply classification for choice questions: classifyChoiceReply *)

UpperOf(c) ==
    IF \E i \in DOMAIN Lowers : Lowers[i] = c
       THEN Uppers[CHOOSE i \in DOMAIN Lowers : Lowers[i] = c]
       ELSE c

\* strings.ToUpper
ToUpper(s) == [i \in 1..Len(s) |-> UpperOf(s[i])]

\* The cutset "()[]{}<>." of normalizeChoiceID and splitReplyTokens.
ChoiceCutset == {"(", ")", "[", "]", "{", "}", "<", ">", "."}

RECURSIVE CutLeft(_, _)
CutLeft(s, cutset) ==
    IF s = <<>> THEN s
    ELSE IF Head(s) \in cutset THEN CutLeft(Tail(s), cutset) ELSE s

RECURSIVE CutRight(_, _)
CutRight(s, cutset) ==
    IF s = <<>> THEN s
    ELSE IF s[Len(s)] \in cutset
            THEN CutRight(SubSeq(s, 1, Len(s) - 1), cutset) ELSE s

\* strings.Trim
Trim(s, cutset) == CutRight(CutLeft(s, cutset), cutset)

normalizeChoiceID(v) ==
    IF TrimSpace(v) = <<>> THEN <<>>
    ELSE Trim(ToUpper(TrimSpace(v)), ChoiceCutset)

\* The runes splitReplyTokens splits at.
ReplyDelimiters == {",", ";", "\n", "\t", " "}

\* strings.FieldsFunc: the maximal runs of runes that are no delimiters; cur
\* is the run being read.
RECURSIVE FieldsFunc(_, _, _)
FieldsFunc(s, isDelim, cur) ==
    IF s = <<>> THEN (IF cur = <<>> THEN <<>> ELSE <<cur>>)
    ELSE IF Head(s) \in isDelim
         THEN (IF cur = <<>> THEN <<>> ELSE <<cur>>)
              \o FieldsFunc(Tail(s), isDelim, <<>>)
         ELSE FieldsFunc(Tail(s), isDelim, Append(cur, Head(s)))

RECURSIVE TrimFields(_)
TrimFields(fields) ==
    IF fields = <<>> THEN <<>>
    ELSE LET trimmed == TrimSpace(Trim(Head(fields), ChoiceCutset)) IN
         (IF trimmed = <<>> THEN <<>> ELSE <<trimmed>>) \o TrimFields(Tail(fields))

splitReplyTokens(s) == TrimFields(FieldsFunc(s, ReplyDelimiters, <<>>))

\* strings.ContainsAny, strings.Contains for one rune, strings.HasPrefix
ContainsAny(s, chars) == \E i \in DOMAIN s : s[i] \in chars

HasPrefix(s, prefix) ==
    Len(s) >= Len(prefix) /\ SubSeq(s, 1, Len(prefix)) = prefix

\* s[len(prefix):]
AfterPrefix(s, prefix) == SubSeq(s, Len(prefix) + 1, Len(s))

OtherWord == <<"o", "t", "h", "e", "r">>
OtherPrefix == <<"o", "t", "h", "e", "r", ":">>

\* strconv.Atoi(n): an optional sign and decimal digits, an error otherwise.
strconvAtoi(n) ==
    LET signed == n # <<>> /\ n[1] \in {"+", "-"}
        body   == IF signed THEN Tail(n) ELSE n
        ok     == body # <<>>
                  /\ \A i \in DOMAIN body : \E d \in DOMAIN Digits : Digits[d] = body[i]
    IN [ok  |-> ok,
        idx |-> IF ~ok THEN 0
                ELSE IF signed /\ n[1] = "-" THEN 0 - Atoi(body) ELSE Atoi(body)]

\* byID: the normalized ids of the request's choices.
byID(req, n) ==
    \E i \in DOMAIN req.choices : normalizeChoiceID(req.choices[i].id) = n

\* byText: from the lowercased, trimmed text of a choice to its id; of two
\* choices with the same text the later one stays in the map.
byText(req, key) ==
    LET is == {i \in DOMAIN req.choices :
                  ToLower(TrimSpace(req.choices[i].text)) = key}
    IN IF is = {} THEN [ok |-> FALSE, id |-> <<>>]
       ELSE [ok |-> TRUE,
             id |-> normalizeChoiceID(
                       req.choices[CHOOSE i \in is : \A j \in is : j <= i].id)]

\* selected = append(selected, id) unless selectedSet has it
AddSelected(selected, id) ==
    IF \E i \in DOMAIN selected : selected[i] = id
       THEN selected ELSE Append(selected, id)

\* The loop over the tokens.
RECURSIVE SelectTokens(_, _, _)
SelectTokens(req, tokens, selected) ==
    IF tokens = <<>> THEN selected
    ELSE
      LET token == Head(tokens)
          n     == normalizeChoiceID(token)
          num   == strconvAtoi(n)
          txt   == byText(req, ToLower(TrimSpace(token)))
      IN
      IF byID(req, n)
         THEN SelectTokens(req, Tail(tokens), AddSelected(selected, n))
      ELSE IF num.ok
         THEN SelectTokens(req, Tail(tokens),
                 IF num.idx >= 1 /\ num.idx <= Len(req.choices)
                    THEN AddSelected(selected,
                            normalizeChoiceID(req.choices[num.idx].id))
                    ELSE selected)
      ELSE IF txt.ok
         THEN SelectTokens(req, Tail(tokens), AddSelected(selected, txt.id))
      ELSE SelectTokens(req, Tail(tokens), selected)

\* The runes of the model in the order of their bytes.
Bytes ==
    <<"\t", "\n", " ", "(", ")", "+", ",", "-", ".", "0", "1", "2", "3", "4",
      "5", "6", "7", "8", "9", ":", ";", "<", ">", "A", "B", "E", "H", "M",
      "O", "R", "T", "X", "[", "]", "a", "b", "e", "h", "m", "o", "r", "t",
      "x", "{", "}">>

ByteOf(c) == CHOOSE i \in DOMAIN Bytes : Bytes[i] = c

\* a < b for strings
RECURSIVE StringLess(_, _)
StringLess(a, b) ==
    IF b = <<>> THEN FALSE
    ELSE IF a = <<>> THEN TRUE
    ELSE IF Head(a) # Head(b) THEN ByteOf(Head(a)) < ByteOf(Head(b))
    ELSE StringLess(Tail(a), Tail(b))

RECURSIVE InsertString(_, _)
InsertString(x, xs) ==
    IF xs = <<>> THEN <<x>>
    ELSE IF StringLess(x, Head(xs)) THEN <<x>> \o xs
    ELSE <<Head(xs)>> \o InsertString(x, Tail(xs))

\* slices.Sort(selected)
RECURSIVE SortStrings(_)
SortStrings(xs) ==
    IF xs = <<>> THEN <<>>
    ELSE InsertString(Head(xs), SortStrings(Tail(xs)))

\* classifyChoiceReply(req, raw): the selected ids and the other text.
classifyChoiceReply(req, raw) ==
    LET text     == TrimSpace(raw)
        whole    == byText(req, ToLower(TrimSpace(text)))
        selected == SortStrings(SelectTokens(req, splitReplyTokens(text), <<>>))
    IN
    IF text = <<>> THEN [selected |-> <<>>, other |-> <<>>]
    ELSE IF ~ContainsAny(text, {",", ";", "\n"}) /\ ContainsAny(text, {" "})
    THEN IF whole.ok THEN [selected |-> <<whole.id>>, other |-> <<>>]
         ELSE IF req.allow_other
              THEN IF HasPrefix(ToLower(TrimSpace(text)), OtherPrefix)
                   THEN [selected |-> <<>>,
                         other |-> TrimSpace(AfterPrefix(text, OtherPrefix))]
                   ELSE [selected |-> <<>>, other |-> text]
         ELSE [selected |-> <<>>, other |-> <<>>]
    ELSE IF Len(selected) > 0
    THEN IF HasPrefix(ToLower(text), OtherPrefix)
         THEN [selected |-> selected,
               other |-> TrimSpace(AfterPrefix(text, OtherPrefix))]
         ELSE [selected |-> selected, other |-> <<>>]
    ELSE IF req.allow_other
    THEN IF HasPrefix(ToLower(TrimSpace(text)), OtherPrefix)
         THEN [selected |-> <<>>,
               other |-> TrimSpace(AfterPrefix(TrimSpace(text), OtherPrefix))]
         ELSE IF EqualFold(TrimSpace(text), OtherWord)
         THEN [selected |-> <<>>, other |-> <<>>]
         ELSE [selected |-> <<>>, other |-> TrimSpace(text)]
    ELSE [selected |-> <<>>, other |-> <<>>]

-----------------------------------------------------------------------------
(* Reply classification: SpecClassify *)

\* The texts a choice can have: a word, two words, two words around a comma,
\* the id of the other choice, a number, a word with a full stop.
ChoiceTexts ==
    {<<"a">>, <<"a", " ", "B">>, <<"a", ",", "B">>, <<"B">>, <<"2">>,
     <<"a", ".">>}

\* The requests: choices A and B, as parseChoices returns them.
AskRequests ==
    {[choices |-> <<[id |-> <<"A">>, text |-> t1], [id |-> <<"B">>, text |-> t2]>>,
      allow_other |-> o] :
        t1 \in ChoiceTexts, t2 \in ChoiceTexts, o \in BOOLEAN}

ReplyPieces ==
    {<<>>, <<"a">>, <<"B">>, <<" ">>, <<",">>, <<"2">>, <<".">>, OtherWord,
     <<"O", "t", "h", "e", "r", ":">>}

\* The replies: up to three pieces in a row.
Replies == {x \o y \o z : x \in ReplyPieces, y \in ReplyPieces, z \in ReplyPieces}

\* runAsk for a choice question: classifyChoiceReply(req, reply.Text)
Classify ==
    /\ lastOp.kind = "reply"
    /\ LET r == classifyChoiceReply(lastOp.req, lastOp.raw) IN
         lastOp' = [lastOp EXCEPT !.kind = "classified",
                                  !.selected = r.selected,
                                  !.other = r.other]
    /\ UNCHANGED <<lockVars, now, inbox, concVars, coordVars>>

InitClassify ==
    /\ alive = [p \in Procs |-> TRUE]
    /\ windows = FALSE
    /\ lockFile = [L \in Locks |-> NoFile]
    /\ lkpc = [p \in Procs |-> [L \in Locks |-> "idle"]]
    /\ now = 1
    /\ inbox = EmptyInbox
    /\ lastOp \in {[kind |-> "reply", req |-> req, raw |-> raw,
                    selected |-> <<>>, other |-> <<>>] :
                       req \in AskRequests, raw \in Replies}
    /\ local = [p \in Procs |-> IdleLocal]
    /\ admitted = [u \in UpdateIds |-> 0]
    /\ upstream = EmptyUpstream
    /\ pc = [p \in Procs |-> "init"]
    /\ prov = [p \in Procs |-> NewTelegram]
    /\ pending = [p \in Procs |-> NoRecord]
    /\ hist = NoHistory
    /\ env = ThisMachine
    /\ out = [p \in Procs |-> NoOutput]

NextClassify == Classify

SpecClassify == InitClassify /\ [][NextClassify]_vars

\* The reply, trimmed and lowercased, is the trimmed and lowercased text of
\* choice i and of no other choice.
ReplyIsTextOf(i) ==
    /\ TrimSpace(lastOp.raw) # <<>>
    /\ \A j \in DOMAIN lastOp.req.choices :
          (ToLower(TrimSpace(lastOp.raw))
              = ToLower(TrimSpace(lastOp.req.choices[j].text))) <=> (j = i)

\* C23: a reply that is, trimmed and lowercased, the text of one choice is
\* classified as the selection of that choice alone, whatever its characters.
ExactTextSelects ==
    lastOp.kind = "classified" =>
       \A i \in DOMAIN lastOp.req.choices :
          ReplyIsTextOf(i) => lastOp.selected = <<lastOp.req.choices[i].id>>

\* What the other text is when it is allowed: the rest after "other:", nothing
\* for a bare "other", the trimmed reply otherwise.
AllowedOtherText ==
    LET t == TrimSpace(lastOp.raw) IN
    IF Len(t) >= 6 /\ ToLower(SubSeq(t, 1, 6)) = OtherPrefix
       THEN TrimSpace(SubSeq(t, 7, Len(t)))
    ELSE IF ToLower(t) = OtherWord THEN <<>>
    ELSE t

\* C24: the other text is empty when an id was selected or other answers are
\* not allowed, and is the allowed other text when nothing was selected and
\* they are allowed.
OtherTextOnlyWhenAllowed ==
    lastOp.kind = "classified" =>
       /\ (lastOp.selected # <<>> \/ ~lastOp.req.allow_other) => lastOp.other = <<>>
       /\ (lastOp.selected = <<>> /\ lastOp.req.allow_other)
              => lastOp.other = AllowedOtherText

-----------------------------------------------------------------------------
(* Send and Receive: more properties, checked under Spec *)

\* C25: a request in the waiting loop of Receive whose deadline has not passed
\* does not end with an error; after a failed getUpdates it is still waiting.
TransientFailureLooped ==
    [][\A p \in Askers :
          pc[p] = "waiting" =>
             /\ prov'[p].outcome # "error"
             /\ (prov'[p].outcome = "none" => pc'[p] \in {"waiting", "scan"})]_vars

-----------------------------------------------------------------------------
(* SpecRegister: Receive after a Send whose registration failed *)

\* The bad pending file is removed; the store starts again from no records.
Repair(store) ==
    /\ store \in env.corrupt
    /\ env' = [env EXCEPT !.corrupt = @ \ {store}]
    /\ pending' = [p \in Procs |-> NoRecord]
    /\ UNCHANGED <<lockVars, inboxVars, concVars, pc, prov, hist, out>>

\* Receive(ctx, requestID) for the request of a Send that returned the error
\* of registerPending: lookupPending asks the store, then the memory.
LateReceive(p) ==
    /\ pc[p] = "done"
    /\ prov[p].outcome = "error"
    /\ prov[p].sentID # 0
    /\ prov[p].target = 0
    /\ LET rec == pending[p]
           err == PendingCorrupt
           fromStore == ~err /\ rec.present /\ rec.chat_id # 0 /\ rec.message_id # 0
           fromMemory == prov[p].inMemory /\ prov[p].sentID # 0 /\ prov[p].chatID # 0
       IN IF fromStore
             THEN /\ prov' = [prov EXCEPT ![p] =
                                 [@ EXCEPT !.target = rec.message_id, !.outcome = "none"]]
                  /\ pc' = [pc EXCEPT ![p] = "waiting"]
          ELSE IF fromMemory
             THEN /\ prov' = [prov EXCEPT ![p] =
                                 [@ EXCEPT !.target = prov[p].sentID,
                                           !.outcome = "none"]]
                  /\ pc' = [pc EXCEPT ![p] = "waiting"]
          ELSE /\ prov' = [prov EXCEPT ![p] = [@ EXCEPT !.outcome = "error"]]
               /\ pc' = [pc EXCEPT ![p] = "unknown"]
    /\ UNCHANGED <<env, out, lockVars, inboxVars, concVars, pending, hist>>

NextRegister ==
    \/ NextCorrupt
    \/ Repair("pending")
    \/ \E p \in Askers : LateReceive(p)

SpecRegister == Init /\ [][NextRegister]_vars

\* C26: when the store call of registerPending fails, Send ends with the
\* error and p's request is neither in the file nor in p's memory; a Receive
\* called for it afterwards ends with the unknown-request error.
FailedRegistration ==
    [][\A p \in Askers :
          /\ (pc[p] = "prompted" /\ pc'[p] # "prompted" /\ pc'[p] # "registered") =>
                /\ pc'[p] = "done"
                /\ prov'[p].outcome = "error"
                /\ ~prov'[p].inMemory
                /\ ~pending'[p].present
          /\ (pc[p] = "done" /\ pc'[p] # "done") =>
                /\ pc'[p] = "unknown"
                /\ prov'[p].outcome = "error"
                /\ ~prov'[p].inMemory
                /\ ~pending'[p].present]_vars

\* A Receive for a request whose registration failed has ended with the
\* unknown-request error, after the bad file was removed, while the other
\* request is registered in the file.
FailedRegistrationWitness ==
    \E p \in Askers : \E q \in Askers :
        /\ pc[p] = "unknown"
        /\ prov[p].sentID # 0
        /\ ~PendingCorrupt
        /\ q # p
        /\ pending[q].present

-----------------------------------------------------------------------------
(* Send and Receive: the poller lock, checked under Spec *)

\* C27: a process receives a batch from getUpdates, which moves its offset,
\* only while it holds the poller lock.
PollsUnderPollerLock ==
    [][\A p \in Askers :
          prov'[p].nextUpdateID # prov[p].nextUpdateID =>
             /\ lockFile["poller"].exists
             /\ lockFile["poller"].owner = p]_vars

\* C28: the message returned as the reply of a request was sent after the
\* request's prompt: its message_id is greater than the prompt's.
ReplyAfterPrompt ==
    \A p \in Askers :
       \A i \in DOMAIN prov[p].reply :
          /\ prov[p].sentID > 0
          /\ MsgOf(prov[p].reply[i].update_id).message_id > prov[p].sentID

-----------------------------------------------------------------------------
(* The lock protocol: more properties, checked under SpecLockCrash *)

\* C29: when a process returns from withLock or TryWithLock, a lock file that
\* another live process created and still holds stays where it is.
ReleaseOnlyOwnLock ==
    [][\A p \in Procs : \A L \in Locks :
          (/\ lkpc[p][L] = "release"
           /\ lkpc'[p][L] = "idle"
           /\ lockFile[L].exists
           /\ lockFile[L].owner # p
           /\ alive[lockFile[L].owner]
           /\ lkpc[lockFile[L].owner][L] \in {"write", "held", "release"})
          => lockFile'[L] = lockFile[L]]_vars

-----------------------------------------------------------------------------
(* SpecClaim: processes calling ClaimForRequest on one inbox at the same   *)
(* time.  The inbox holds two replies threaded to the prompt; each call    *)
(* takes inbox.lock step by step, reads the file, and later scans, saves   *)
(* and returns.                                                            *)

\* The inbox after AppendUpdates of two updates that reply to message 2.
ClaimInbox ==
    AppendBody(EmptyInbox,
               <<Update(1, ConcMessage), Update(2, ConcMessage)>>, 1).state

\* loadLocked inside ClaimForRequest
ClaimLoad(p) ==
    \E a \in ConcArgs : InboxLoad(p, [op |-> "claim", batch |-> <<>>, a |-> a])

\* The rest of ClaimForRequest: prune, scan, saveLocked when the scan changed
\* the entries, and the return of the claimed entry to the caller, kept in
\* out[p].stdout.
ClaimSave(p) ==
    /\ InFn(p, "inbox")
    /\ local[p].stage = "loaded"
    /\ LET c == local[p]
           r == ClaimBody(c.loaded, c.a, now)
       IN /\ inbox' = Saved(inbox, r)
          /\ lastOp' = [NoOp EXCEPT !.kind = c.op, !.a = c.a, !.at = now,
                                    !.prevNext = inbox.next,
                                    !.scanned = r.scanned, !.claimed = r.claimed,
                                    !.needsReminder = r.needsReminder]
          /\ out' = [out EXCEPT ![p].stdout = @ \o r.claimed]
    /\ local' = [local EXCEPT ![p] = [IdleLocal EXCEPT !.calls = local[p].calls]]
    /\ SetPc(p, "inbox", "release")
    /\ UNCHANGED <<alive, windows, lockFile, now, admitted, upstream,
                   pc, prov, pending, hist, env>>

InitClaim ==
    /\ alive = [p \in Procs |-> TRUE]
    /\ windows = FALSE
    /\ lockFile = [L \in Locks |-> NoFile]
    /\ lkpc = [p \in Procs |-> [L \in Locks |-> "idle"]]
    /\ now = 1
    /\ inbox = ClaimInbox
    /\ lastOp = NoOp
    /\ local = [p \in Procs |-> IdleLocal]
    /\ admitted = [u \in UpdateIds |-> 1]
    /\ upstream = EmptyUpstream
    /\ pc = [p \in Procs |-> "init"]
    /\ prov = [p \in Procs |-> NewTelegram]
    /\ pending = [p \in Procs |-> NoRecord]
    /\ hist = NoHistory
    /\ env = ThisMachine
    /\ out = [p \in Procs |-> NoOutput]

NextClaim ==
    \/ \E p \in Procs : InboxBegin(p)
    \/ \E p \in Procs : LockOpen(p, "inbox")
    \/ \E p \in Procs : LockWritePid(p, "inbox")
    \/ \E p \in Procs : LockStat(p, "inbox")
    \/ \E p \in Procs : LockUnlink(p, "inbox")
    \/ \E p \in Procs : LockRetry(p, "inbox")
    \/ \E p \in Procs : LockTimeout(p, "inbox")
    \/ \E p \in Procs : ClaimLoad(p)
    \/ \E p \in Procs : ClaimSave(p)
    \/ \E p \in Procs : LockRelease(p, "inbox")
    \/ \E p \in Procs : Crash(p)

SpecClaim == InitClaim /\ [][NextClaim]_vars

\* The update ids of the entries returned to p so far.
ReturnedTo(p) == {out[p].stdout[i].update_id : i \in DOMAIN out[p].stdout}

\* C30: no inbox entry has been returned to two callers, and no entry that
\* was returned to a caller is in the persisted inbox.
ClaimAtMostOnce ==
    /\ \A p \in Procs : \A q \in Procs :
          p # q => ReturnedTo(p) \cap ReturnedTo(q) = {}
    /\ \A p \in Procs :
          \A i \in DOMAIN inbox.entries :
             inbox.entries[i].update_id \notin ReturnedTo(p)

-----------------------------------------------------------------------------
(* The lock protocol: the stale rule and the ways out, under SpecLock *)

\* The PID in the file at L's path can be read and decides: the holder has
\* written it and the host is not Windows.
PidDecides(L) == lockFile[L].written /\ ~windows

\* p has just classified the existing lock file of store lock L.
JustClassified(p, L) ==
    /\ lkpc[p][L] = "stat"
    /\ lkpc'[p][L] # "stat"
    /\ lockFile[L].exists

\* What withLock does after the classification: a stale file is removed and
\* the create is tried again; any other file stays, and the caller tries
\* again after 20 ms or gives up at the 3 s deadline.
AfterClassified(p, L) ==
    /\ (lkpc[p][L] = "unlink" /\ lkpc'[p][L] # "unlink") =>
          lkpc'[p][L] = "open" /\ ~lockFile'[L].exists
    /\ (lkpc[p][L] = "busy" /\ lkpc'[p][L] # "busy") =>
          lkpc'[p][L] \in {"open", "idle"} /\ lockFile'[L] = lockFile[L]

\* C31 as stated: an existing store lock is taken as stale when its PID is
\* of a dead process (non-Windows) and also whenever its mtime is more than
\* 10 s old; a lock that is neither stays and the caller retries or times out.
StaleRuleAsStated ==
    [][\A p \in Procs : \A L \in StoreLocks :
          /\ JustClassified(p, L) =>
                (lkpc'[p][L] = "unlink" <=>
                    \/ (PidDecides(L) /\ ~alive[lockFile[L].owner])
                    \/ lockFile[L].old)
          /\ AfterClassified(p, L)]_vars

\* C31, amended: when the PID in the file can be read on a non-Windows host
\* the lock is stale exactly if that process is dead, whatever the file's
\* age; only without a readable PID, or on Windows, is it stale exactly if its
\* mtime is more than 10 s old.
StaleRule ==
    [][\A p \in Procs : \A L \in StoreLocks :
          /\ JustClassified(p, L) =>
                (lkpc'[p][L] = "unlink" <=>
                    IF PidDecides(L) THEN ~alive[lockFile[L].owner]
                                     ELSE lockFile[L].old)
          /\ AfterClassified(p, L)]_vars

\* A caller has left in place a store lock that is more than 10 s old and
\* carries the PID of a live process.
StaleRuleWitness ==
    \E p \in Procs : \E L \in StoreLocks :
        /\ lkpc[p][L] = "busy"
        /\ lockFile[L].exists
        /\ lockFile[L].old
        /\ lockFile[L].written
        /\ ~windows
        /\ lockFile[L].owner # p
        /\ alive[lockFile[L].owner]

-----------------------------------------------------------------------------
(* SpecTry: processes calling TryWithLock once each.  local[p] counts the  *)
(* calls p has made and the stale files its call has removed.              *)

TryLocal == [calls |-> 0, removals |-> 0]

\* The call enters TryWithLock (MkdirAll done, loop head next).
TryBegin(p) ==
    /\ alive[p]
    /\ local[p].calls < MaxCalls
    /\ \A M \in Locks : lkpc[p][M] = "idle"
    /\ SetPc(p, "poller", "open")
    /\ local' = [local EXCEPT ![p].calls = @ + 1]
    /\ UNCHANGED <<alive, windows, lockFile, inboxVars, admitted, upstream, coordVars>>

\* _ = os.Remove(l.path); continue
TryUnlink(p) ==
    /\ alive[p]
    /\ lkpc[p]["poller"] = "unlink"
    /\ lockFile' = [lockFile EXCEPT !["poller"] = NoFile]
    /\ SetPc(p, "poller", "open")
    /\ local' = [local EXCEPT ![p].removals = @ + 1]
    /\ UNCHANGED <<alive, windows, inboxVars, admitted, upstream, coordVars>>

InitTry ==
    /\ alive = [p \in Procs |-> TRUE]
    /\ windows \in BOOLEAN
    /\ lockFile = [L \in Locks |-> NoFile]
    /\ lkpc = [p \in Procs |-> [L \in Locks |-> "idle"]]
    /\ now = 1
    /\ inbox = EmptyInbox
    /\ lastOp = NoOp
    /\ local = [p \in Procs |-> TryLocal]
    /\ admitted = [u \in UpdateIds |-> 0]
    /\ upstream = EmptyUpstream
    /\ pc = [p \in Procs |-> "init"]
    /\ prov = [p \in Procs |-> NewTelegram]
    /\ pending = [p \in Procs |-> NoRecord]
    /\ hist = NoHistory
    /\ env = ThisMachine
    /\ out = [p \in Procs |-> NoOutput]

NextTry ==
    \/ \E p \in Procs : TryBegin(p)
    \/ \E p \in Procs : LockOpen(p, "poller")
    \/ \E p \in Procs : LockWritePid(p, "poller")
    \/ \E p \in Procs : LockStat(p, "poller")
    \/ \E p \in Procs : TryUnlink(p)
    \/ \E p \in Procs : LockRetry(p, "poller")
    \/ \E p \in Procs : FnReturn(p, "poller")
    \/ \E p \in Procs : LockRelease(p, "poller")
    \/ LockAges("poller")
    \/ \E p \in Procs : Crash(p)

SpecTry == InitTry /\ [][NextTry]_vars

\* C32: a call of TryWithLock removes at most one stale file; when it finds
\* the file held and not stale it returns acquired = false without another
\* try; it runs fn only after it has created the file itself.
TryWithLockBounded ==
    [][\A p \in Procs :
          /\ local'[p].removals <= 1
          /\ (lkpc[p]["poller"] = "busy" /\ lkpc'[p]["poller"] # "busy") =>
                lkpc'[p]["poller"] = "idle"
          /\ (lkpc[p]["poller"] # "write" /\ lkpc'[p]["poller"] = "write") =>
                ~lockFile["poller"].exists /\ lockFile'["poller"].owner = p
          /\ (lkpc[p]["poller"] # "held" /\ lkpc'[p]["poller"] = "held") =>
                lkpc[p]["poller"] = "write"]_vars

-----------------------------------------------------------------------------
(* SpecLockFair: the lock protocol with no crashes, each process making    *)
(* MaxCalls calls and going on with the call it is in; a caller of         *)
(* withLock that finds the lock held may give up at its 3 s deadline.      *)

\* A step of the call p is in, other than giving up at the deadline.
LockStep(p) ==
    \E L \in Locks :
       \/ LockOpen(p, L)
       \/ LockWritePid(p, L)
       \/ LockStat(p, L)
       \/ LockUnlink(p, L)
       \/ LockRetry(p, L)
       \/ FnReturn(p, L)
       \/ LockRelease(p, L)

\* p makes its call of withLock or TryWithLock on L.
CallBegin(p, L) ==
    /\ alive[p]
    /\ local[p].calls < MaxCalls
    /\ \A M \in Locks : lkpc[p][M] = "idle"
    /\ SetPc(p, L, "open")
    /\ local' = [local EXCEPT ![p].calls = @ + 1]
    /\ UNCHANGED <<alive, windows, lockFile, inboxVars, admitted, upstream, coordVars>>

NextLockFair ==
    \/ \E p \in Procs, L \in Locks : CallBegin(p, L)
    \/ \E p \in Procs : LockStep(p)
    \/ \E p \in Procs, L \in Locks : LockTimeout(p, L)
    \/ \E L \in Locks : LockAges(L)

SpecLockFair ==
    /\ InitTry
    /\ [][NextLockFair]_vars
    /\ \A p \in Procs : WF_vars(LockStep(p))

\* p is inside a call on L and has not created the lock file.
WaitingFor(p, L) == lkpc[p][L] \in {"open", "stat", "unlink", "busy"}

\* C33: when a call that created its lock file returns, no file is at the
\* lock's path; with no crashes a lock file that exists is eventually gone,
\* and a process waiting for a lock eventually has it or has stopped waiting
\* (withLock at its deadline, TryWithLock at once).
ReleasedOnEveryBranch ==
    /\ [][\A p \in Procs : \A L \in Locks :
            (lkpc[p][L] \in {"held", "release"} /\ lkpc'[p][L] = "idle")
               => ~lockFile'[L].exists]_vars
    /\ \A L \in Locks : lockFile[L].exists ~> ~lockFile[L].exists
    /\ \A p \in Procs : \A L \in Locks :
          WaitingFor(p, L) ~> (lkpc[p][L] \in {"write", "held", "idle"})

\* A process has the store lock that another process held before it and
\* has left.
ReleasedOnEveryBranchWitness ==
    \E p \in Procs : \E q \in Procs : \E L \in StoreLocks :
        /\ p # q
        /\ lkpc[p][L] = "held"
        /\ lockFile[L].exists
        /\ lockFile[L].owner = p
        /\ lockFile[L].written
        /\ lkpc[q][L] = "idle"
        /\ \E M \in Locks : lkpc[q][M] = "busy"

-----------------------------------------------------------------------------
(* Termination of a request: Send's registration and Receive's deferred
   cleanup step through the pending store's lock, Receive's loop runs
   between them.  SpecTerminate gives every live process weak fairness on
   its own steps; the deadlines (ctx of Receive, telegramPendingLockWait of
   withLock) pass while their loops turn, which is strong fairness on the
   two timeout steps. *)

\* The steps of Receive between registration and cleanup; the process is
\* not inside the store.
ReceiveStep(p) ==
    /\ alive[p]
    /\ lkpc[p]["pending"] = "idle"
    /\ \/ lookupPending(p)
       \/ RecvGetUpdates(p)
       \/ RecvScan(p)

\* getUpdates fails: the network's doing, so no fairness asks for it.
ReceiveFails(p) ==
    /\ alive[p]
    /\ lkpc[p]["pending"] = "idle"
    /\ RecvGetUpdatesFails(p)

\* case <-ctx.Done() at the head of Receive's loop.
ReceiveDeadline(p) ==
    /\ alive[p]
    /\ lkpc[p]["pending"] = "idle"
    /\ RecvTimeout(p)

\* Any step of the request of p other than the two deadlines.
RequestStep(p) ==
    \/ StoreBegin(p)
    \/ LockOpen(p, "pending")
    \/ LockWritePid(p, "pending")
    \/ LockStat(p, "pending")
    \/ LockUnlink(p, "pending")
    \/ LockRetry(p, "pending")
    \/ StoreLoad(p)
    \/ StoreSave(p)
    \/ LockRelease(p, "pending")
    \/ ReceiveStep(p)

\* The human answers in the chat, without threading, MaxReplies times.
HumanReplies ==
    /\ upstream.nextUid <= MaxReplies
    /\ HumanSends(1, 0, PaddedText)

NextTerminate ==
    \/ \E p \in Askers : RequestStep(p)
    \/ \E p \in Askers : ReceiveFails(p)
    \/ \E p \in Askers : ReceiveDeadline(p)
    \/ \E p \in Askers : StoreTimeout(p)
    \/ \E p \in Askers : Crash(p)
    \/ HumanReplies

SpecTerminate ==
    /\ InitPendingLock
    /\ [][NextTerminate]_vars
    /\ \A p \in Askers : WF_vars(RequestStep(p))
    /\ \A p \in Askers : SF_vars(ReceiveDeadline(p))
    /\ \A p \in Askers : SF_vars(StoreTimeout(p))

\* The request of p is over: Receive (or a failed Send) has returned and
\* the process is outside the store.
RequestOver(p) ==
    /\ pc[p] = "done"
    /\ prov[p].outcome \in {"reply", "timeout", "error"}
    /\ \A L \in Locks : lkpc[p][L] = "idle"

\* C34: every request of a process that keeps running ends with a reply, at
\* its deadline or with an error, and a process that waits for the pending
\* lock gets it or gives up.
RequestsTerminate ==
    /\ \A p \in Askers : <>(~alive[p] \/ RequestOver(p))
    /\ \A p \in Askers :
          WaitingFor(p, "pending") ~>
             (~alive[p] \/ lkpc[p]["pending"] \in {"write", "held", "idle"})

\* A request ended with a reply after it had to wait for the store, while
\* the other request's process is dead.
RequestsTerminateWitness ==
    \E p \in Askers : \E q \in Askers :
        /\ RequestOver(p)
        /\ prov[p].outcome = "reply"
        /\ ~alive[q]

-----------------------------------------------------------------------------
(* The order of the locks.  The bodies of the pending store's and the inbox
   store's methods load and save their own file and call nothing else, so a
   store call starts with no lock of the process in use; the poll cycle runs
   inbox calls inside the body of TryWithLock. *)

\* A store call that starts whatever else the process has in hand.
StoreCallAnywhere(p, L) ==
    /\ alive[p]
    /\ L \in StoreLocks
    /\ lkpc[p][L] = "idle"
    /\ SetPc(p, L, "open")
    /\ UNCHANGED <<alive, windows, lockFile>>
    /\ UNCHANGED nonLockVars

\* A method of a store is called from outside every lock body.
StoreCall(p, L) ==
    /\ L \in StoreLocks
    /\ LockBegin(p, L)

\* The poll cycle: inbox.NextOffset and inbox.AppendUpdates are called from
\* the body of poller.TryWithLock.
PollInboxCall(p) ==
    /\ InFn(p, "poller")
    /\ lkpc[p]["inbox"] = "idle"
    /\ lkpc[p]["pending"] = "idle"
    /\ SetPc(p, "inbox", "open")
    /\ UNCHANGED <<alive, windows, lockFile>>
    /\ UNCHANGED nonLockVars

\* fn returns, after the calls it made have returned.
BodyReturn(p, L) ==
    /\ \A M \in Locks \ {L} : lkpc[p][M] = "idle"
    /\ FnReturn(p, L)

NextOrder ==
    \/ \E p \in Procs, L \in StoreLocks : StoreCall(p, L)
    \/ \E p \in Procs : LockBegin(p, "poller")
    \/ \E p \in Procs : PollInboxCall(p)
    \/ \E p \in Procs, L \in Locks : LockOpen(p, L)
    \/ \E p \in Procs, L \in Locks : LockWritePid(p, L)
    \/ \E p \in Procs, L \in Locks : LockStat(p, L)
    \/ \E p \in Procs, L \in Locks : LockUnlink(p, L)
    \/ \E p \in Procs, L \in Locks : LockRetry(p, L)
    \/ \E p \in Procs, L \in Locks : LockTimeout(p, L)
    \/ \E p \in Procs, L \in Locks : BodyReturn(p, L)
    \/ \E p \in Procs, L \in Locks : LockRelease(p, L)
    \/ \E p \in Procs : Crash(p)

SpecOrder == InitLockCrash /\ [][NextOrder]_vars

\* p is inside a call on L: waiting for the lock, holding it or leaving it.
InCall(p, L) == lkpc[p][L] # "idle"

\* C35: a process is never inside a pending-lock call and an inbox-lock call
\* at once; a process inside two calls is in the body of the poller lock and
\* inside an inbox call; and a process that finds the poller lock busy
\* leaves the call instead of trying again.
NoLockCycle ==
    /\ [](\A p \in Procs :
            /\ ~(InCall(p, "pending") /\ InCall(p, "inbox"))
            /\ InCall(p, "pending") => ~InCall(p, "poller")
            /\ (InCall(p, "inbox") /\ InCall(p, "poller")) =>
                  lkpc[p]["poller"] = "held")
    /\ [][\A p \in Procs :
            (lkpc[p]["poller"] = "busy" /\ lkpc'[p]["poller"] # "busy") =>
                lkpc'[p]["poller"] = "idle"]_vars

\* A process waits for the inbox lock inside the body of the poller lock
\* while another process holds the inbox lock.
NoLockCycleWitness ==
    \E p \in Procs : \E q \in Procs :
        /\ p # q
        /\ lkpc[p]["poller"] = "held"
        /\ lkpc[p]["inbox"] = "busy"
        /\ lkpc[q]["inbox"] = "held"
        /\ lockFile["inbox"].owner = q

-----------------------------------------------------------------------------
(* The inbox store: what a claim returns and what it leaves, checked under
   SpecInboxSeq *)

\* C36: the entry ClaimForRequest returns is never a reply to a message
\* other than the request's prompt, whatever the pending count.
NeverForeignReply ==
    lastOp.kind = "claim" =>
       \A i \in DOMAIN lastOp.claimed :
          ~(lastOp.claimed[i].reply_to # 0
            /\ lastOp.claimed[i].reply_to # lastOp.a.target)

\* A single-pending claim scanned a reply to another prompt in its chat,
\* newer than its own prompt, and returned an entry that came after it.
NeverForeignReplyWitness ==
    /\ lastOp.kind = "claim"
    /\ lastOp.a.pcount <= 1
    /\ lastOp.claimed # <<>>
    /\ \E i \in DOMAIN lastOp.scanned :
          /\ lastOp.scanned[i].chat_id = lastOp.a.chat
          /\ lastOp.scanned[i].reply_to \notin {0, lastOp.a.target}
          /\ lastOp.scanned[i].message_id > lastOp.a.target
          /\ lastOp.scanned[i].update_id < lastOp.claimed[1].update_id

-----------------------------------------------------------------------------
(* AppendUpdates with its batch on record: SpecAppend *)

\* store.AppendUpdates(batch) on a non-empty batch, run whole.
AppendCall(batch) ==
    /\ batch # <<>>
    /\ LET r == AppendBody(inbox, batch, now)
       IN /\ inbox' = Saved(inbox, r)
          /\ lastOp' = [kind |-> "appendUpdates", batch |-> batch,
                        prevNext |-> inbox.next,
                        added |-> r.added, offset |-> r.offset]
    /\ UNCHANGED <<now, lockVars, concVars, coordVars>>

NextAppend ==
    \/ \E b \in Batches : AppendCall(b)
    \/ Tick /\ UNCHANGED <<lockVars, concVars, coordVars>>

SpecAppend == InitInboxSeq /\ [][NextAppend]_vars

\* The largest update id of a batch, admitted or not.
BatchMax(batch) ==
    CHOOSE m \in {batch[i].update_id : i \in DOMAIN batch} :
        \A i \in DOMAIN batch : batch[i].update_id <= m

\* C37: after AppendUpdates on a non-empty batch the stored next offset is
\* the larger of the offset stored before and one more than the largest
\* update id of the batch, and it is the offset the call returns.
AppendOffset ==
    lastOp.kind = "appendUpdates" =>
       LET m == BatchMax(lastOp.batch) + 1
       IN /\ inbox.next = IF m > lastOp.prevNext THEN m ELSE lastOp.prevNext
          /\ lastOp.offset = inbox.next

\* The batch's largest id comes first and has no message; the update after
\* it is admitted, and the offset moves past the largest id.
AppendOffsetWitness ==
    /\ lastOp.kind = "appendUpdates"
    /\ Len(lastOp.batch) = 2
    /\ lastOp.batch[1].update_id > lastOp.batch[2].update_id
    /\ ~lastOp.batch[1].message.present
    /\ lastOp.added = 1
    /\ lastOp.prevNext > 0
    /\ inbox.next = lastOp.batch[1].update_id + 1
    /\ lastOp.prevNext < inbox.next

-----------------------------------------------------------------------------
(* The shape of the stored inbox, checked under SpecInboxSeq *)

\* The update ids of a sorted store that is as many entries over its
\* capacity as the stored inbox has entries: the ids below 1 are older
\* entries, the rest are the stored ones.
OverFull ==
    [i \in 1..(telegramInboxMaxEntries + Len(inbox.entries)) |->
        IF i <= telegramInboxMaxEntries
           THEN i - telegramInboxMaxEntries
           ELSE inbox.entries[i - telegramInboxMaxEntries].update_id]

\* C38: the stored entries have strictly increasing (hence distinct) update
\* ids and non-blank text and are at most telegramInboxMaxEntries; and the
\* cut AppendUpdates makes after sorting leaves telegramInboxMaxEntries
\* entries, dropping exactly the lowest ids of a store over capacity.
InboxShape ==
    /\ \A i \in DOMAIN inbox.entries : \A j \in DOMAIN inbox.entries :
          i < j => inbox.entries[i].update_id < inbox.entries[j].update_id
    /\ \A i \in DOMAIN inbox.entries : TrimSpace(inbox.entries[i].text) # <<>>
    /\ Len(inbox.entries) <= telegramInboxMaxEntries
    /\ LET kept == Truncate(OverFull)
           drop == Len(inbox.entries)
       IN /\ Len(kept) = telegramInboxMaxEntries
          /\ \A j \in DOMAIN kept : kept[j] = OverFull[j + drop]

\* One append has just stored two entries at once.
InboxShapeWitness ==
    /\ lastOp.kind = "append"
    /\ lastOp.added = 2
    /\ lastOp.prevNext = 0
    /\ Len(inbox.entries) = 2
    /\ inbox.entries[1].chat_id # inbox.entries[2].chat_id

\* C39: ClaimForRequest leaves the next offset as it was and leaves in the
\* store, unchanged, every entry it scanned that is of another chat; with a
\* pending count above 1 it also leaves every scanned entry of its chat
\* that replies to a message other than its prompt.
ClaimFrame ==
    lastOp.kind = "claim" =>
       /\ inbox.next = lastOp.prevNext
       /\ \A i \in DOMAIN lastOp.scanned :
             LET e == lastOp.scanned[i] IN
             /\ e.chat_id # lastOp.a.chat => Remains(e)
             /\ (lastOp.a.pcount > 1
                 /\ e.chat_id = lastOp.a.chat
                 /\ e.reply_to \notin {0, lastOp.a.target}) => Remains(e)

\* A multi-pending claim dropped free text of its chat and scanned an entry
\* it has to leave: one of another chat, or a reply to another prompt.
ClaimFrameWitness ==
    /\ lastOp.kind = "claim"
    /\ lastOp.a.pcount > 1
    /\ lastOp.needsReminder
    /\ Len(inbox.entries) < Len(lastOp.scanned)
    /\ \E i \in DOMAIN lastOp.scanned :
          \/ lastOp.scanned[i].chat_id # lastOp.a.chat
          \/ /\ lastOp.scanned[i].chat_id = lastOp.a.chat
             /\ lastOp.scanned[i].reply_to \notin {0, lastOp.a.target}

\* C40: a ClaimForRequest with a pending count of at most 1 that returns no
\* entry asks for no reminder, and of the entries of its chat only expired
\* ones, which no call scans, can be in the store after it.
SinglePendingClears ==
    (lastOp.kind = "claim" /\ lastOp.a.pcount <= 1 /\ lastOp.claimed = <<>>) =>
       /\ ~lastOp.needsReminder
       /\ \A i \in DOMAIN lastOp.scanned :
             lastOp.scanned[i].chat_id = lastOp.a.chat => ~Remains(lastOp.scanned[i])
       /\ \A i \in DOMAIN inbox.entries :
             inbox.entries[i].chat_id = lastOp.a.chat =>
                inbox.entries[i].expires_at <= lastOp.at

\* A single-pending claim that returned nothing scanned a reply to another
\* prompt and chatter from before its prompt, both of its chat.
SinglePendingClearsWitness ==
    /\ lastOp.kind = "claim"
    /\ lastOp.a.pcount <= 1
    /\ lastOp.claimed = <<>>
    /\ \E i \in DOMAIN lastOp.scanned :
          /\ lastOp.scanned[i].chat_id = lastOp.a.chat
          /\ lastOp.scanned[i].reply_to \notin {0, lastOp.a.target}
    /\ \E i \in DOMAIN lastOp.scanned :
          /\ lastOp.scanned[i].chat_id = lastOp.a.chat
          /\ lastOp.scanned[i].reply_to = 0
          /\ lastOp.scanned[i].message_id <= lastOp.a.target

====
